---- MODULE Spec2Model ----
(***************************************************************************)
(* Forecast & Oversight pipeline of Krishimitra.                           *)
(*                                                                         *)
(* Part I   the Overseer (backend/services/overseer_service.py): the six   *)
(*          checks, the drift reaction, the clamp, the verdict and the     *)
(*          audit write of Overseer.evaluate.                              *)
(* Part II  the rolling forecasters (backend/services/                     *)
(*          karnataka_predictor.py, maharashtra_predictor.py): predict()   *)
(*          and forecast() with floor, festival boost and daily clamp.     *)
(* Part III the forecaster singletons under concurrent requests.           *)
(* Part IV  the scenario confidence of the yield pipeline.                 *)
(* Part V   market resolution in _build_feature_row.                       *)
(* Part VI  RecommendationService.get_recommendation                       *)
(*          (backend/services/recommendation_service.py): decision logic,  *)
(*          weather advisory, the Overseer call and its overrides.         *)
(*                                                                         *)
(* Number conventions.  Confidence scores and penalties are integers in    *)
(* thousandths (0.95 is 950).  Percent comparisons on prices are done on   *)
(* exact rationals by cross-multiplication, so `x / y * 100 > 20` of the   *)
(* source reads `x * 100 > 20 * y` here.  round(x, 1) is round-half-even   *)
(* on the exact value, kept in tenths.  Forecast prices are fixed point:   *)
(* paise, 1/100 rupee.                                                    *)
(***************************************************************************)
EXTENDS Integers, Sequences, FiniteSets, TLC

VARIABLES
    today,               \* datetime.date.today(), as a day number
    price_history,       \* rows of PriceHistory
    evaluation_metrics,  \* rows of EvaluationMetric
    overseer_log,        \* rows of OverseerLog, in insertion order
    pc,                  \* "idle" before a call of evaluate, "returned" after it
    calls,               \* number of evaluate calls made so far
    call,                \* arguments and environment of the latest evaluate call
    oversight,           \* the dict the latest evaluate call returned
    log_args,            \* the keyword arguments that call handed to _log_to_db
    prev,                \* call and outcome of the evaluate call before the latest
    fpc,                 \* "idle" before a predictor call, "done" after it
    fcall,               \* arguments and model outputs of the predictor call
    today_result,        \* the dict predict() returned (forecast's "today")
    rolling_prices,      \* forecast()'s local list rolling_prices, in paise
    forecast_list,       \* forecast()'s returned list of Forecast Points
    best_day,            \* forecast()'s returned best_day
    slot,                \* KarnatakaForecaster._groundnut, ... : predictor id or 0 (None)
    heap,                \* per commodity, the bundles of the predictors constructed
    missing,             \* commodities whose artefact files cannot be loaded
    threads,             \* per request thread: position and locals of get_forecast
    scenario,            \* arguments of the latest _compute_scenario_confidence call
    conf,                \* the confidence that call returned, as a fraction
    market,              \* the market argument of the latest _build_feature_row call
    mkt_val,             \* the market that call resolved it to, or the exception raised
    data,                \* arguments and environment of the latest get_recommendation call
    result               \* the dict that call returned

overseer_vars == <<today, price_history, evaluation_metrics, overseer_log,
                   pc, calls, call, oversight, log_args, prev>>

forecast_vars == <<fpc, fcall, today_result, rolling_prices, forecast_list, best_day>>

loader_vars == <<slot, heap, missing, threads>>

scenario_vars == <<scenario, conf>>

market_vars == <<market, mkt_val>>

advice_vars == <<data, result>>

vars == <<overseer_vars, forecast_vars, loader_vars, scenario_vars, market_vars,
          advice_vars>>

(***************************************************************************)
(* Arithmetic helpers                                                      *)
(***************************************************************************)
Abs(x) == IF x < 0 THEN -x ELSE x

Max(a, b) == IF a >= b THEN a ELSE b

Min(a, b) == IF a <= b THEN a ELSE b

\* Python's round() of the non-negative rational n/d to an integer:
\* nearest, ties to even.
RoundHalfEven(n, d) ==
    LET q == n \div d
        r == n % d
    IN  IF 2 * r > d THEN q + 1
        ELSE IF 2 * r < d THEN q
        ELSE IF q % 2 = 0 THEN q ELSE q + 1

RECURSIVE SumSeq(_)
SumSeq(s) == IF s = <<>> THEN 0 ELSE Head(s) + SumSeq(Tail(s))

RECURSIVE SumSquares(_)
SumSquares(s) == IF s = <<>> THEN 0 ELSE Head(s) * Head(s) + SumSquares(Tail(s))

\* sum of the .price column of a set of rows
RECURSIVE SumPrice(_)
SumPrice(rows) ==
    IF rows = {} THEN 0
    ELSE LET r == CHOOSE x \in rows : TRUE
         IN  r.price + SumPrice(rows \ {r})

\* sum of the .error_pct column of a set of rows
RECURSIVE SumError(_)
SumError(rows) ==
    IF rows = {} THEN 0
    ELSE LET r == CHOOSE x \in rows : TRUE
         IN  r.error_pct + SumError(rows \ {r})

(***************************************************************************)
(* Constants of overseer_service.py                                        *)
(***************************************************************************)
CONFIDENCE_FLOOR == 400

CONFIDENCE_CEILING == 950

\* PERISHABLE_CROPS: max_safe_days; risk_multiplier is kept as the product
\* 0.05 * risk_multiplier in thousandths.
PERISHABLE_CROPS ==
    [Onion     |-> [max_safe_days |-> 14, high_risk_penalty |-> 125],
     Sugarcane |-> [max_safe_days |-> 3,  high_risk_penalty |-> 200],
     Tomato    |-> [max_safe_days |-> 7,  high_risk_penalty |-> 150]]

Warning(code, severity) == [code |-> code, severity |-> severity]

(***************************************************************************)
(* CHECK 1: _check_anomalies                                               *)
(***************************************************************************)
\* cv = std / mean > 0.15 with numpy's population std:
\* cv^2 = (n*Q - S^2) / S^2, so cv > 0.15 iff (n*Q - S^2) * 400 > 9 * S^2.
HighForecastVariance(prices) ==
    LET n == Len(prices)
        S == SumSeq(prices)
        Q == SumSquares(prices)
    IN  /\ n > 0
        /\ S > 0
        /\ (n * Q - S * S) * 400 > 9 * S * S

\* mutant: a hold of 10 days or more already counts as excessive
_check_anomalies_LongHoldFrom10(current_price, peak_price, wait_days, forecast_data) ==
    LET longhold == wait_days >= 10
    IN  [penalty  |-> IF longhold THEN 80 ELSE 0,
         count    |-> IF longhold THEN 1 ELSE 0,
         warnings |-> IF longhold THEN <<Warning("EXCESSIVE_HOLD_PERIOD", "medium")>> ELSE <<>>]

\* mutant: the long-hold anomaly costs 0.05
_check_anomalies_LongHoldPenalty50(current_price, peak_price, wait_days, forecast_data) ==
    LET longhold == wait_days > 60
    IN  [penalty  |-> IF longhold THEN 50 ELSE 0,
         count    |-> IF longhold THEN 1 ELSE 0,
         warnings |-> IF longhold THEN <<Warning("EXCESSIVE_HOLD_PERIOD", "medium")>> ELSE <<>>]

\* mutant: the variance anomaly is penalised and warned about but not counted
_check_anomalies_VarianceUncounted(current_price, peak_price, wait_days, forecast_data) ==
    LET spike   == current_price > 0
                   /\ (peak_price - current_price) * 100 > 20 * current_price
        decline == current_price > 0
                   /\ (peak_price - current_price) * 100 < (-15) * current_price
        longhold == wait_days > 60
        variance == HighForecastVariance(forecast_data)
    IN  [penalty  |-> (IF spike THEN 150 ELSE 0) + (IF decline THEN 100 ELSE 0)
                      + (IF longhold THEN 80 ELSE 0) + (IF variance THEN 80 ELSE 0),
         count    |-> (IF spike THEN 1 ELSE 0) + (IF decline THEN 1 ELSE 0)
                      + (IF longhold THEN 1 ELSE 0),
         warnings |-> (IF spike THEN <<Warning("UNREALISTIC_SPIKE", "high")>> ELSE <<>>)
                      \o (IF decline THEN <<Warning("SHARP_DECLINE_PREDICTED", "high")>> ELSE <<>>)
                      \o (IF longhold THEN <<Warning("EXCESSIVE_HOLD_PERIOD", "medium")>> ELSE <<>>)
                      \o (IF variance THEN <<Warning("HIGH_FORECAST_VARIANCE", "medium")>> ELSE <<>>)]

_check_anomalies(current_price, peak_price, wait_days, forecast_data) ==
    LET spike   == current_price > 0
                   /\ (peak_price - current_price) * 100 > 20 * current_price
        decline == current_price > 0
                   /\ (peak_price - current_price) * 100 < (-15) * current_price
        longhold == wait_days > 60
        variance == HighForecastVariance(forecast_data)
    IN  [penalty  |-> (IF spike THEN 150 ELSE 0) + (IF decline THEN 100 ELSE 0)
                      + (IF longhold THEN 80 ELSE 0) + (IF variance THEN 80 ELSE 0),
         count    |-> (IF spike THEN 1 ELSE 0) + (IF decline THEN 1 ELSE 0)
                      + (IF longhold THEN 1 ELSE 0) + (IF variance THEN 1 ELSE 0),
         warnings |-> (IF spike THEN <<Warning("UNREALISTIC_SPIKE", "high")>> ELSE <<>>)
                      \o (IF decline THEN <<Warning("SHARP_DECLINE_PREDICTED", "high")>> ELSE <<>>)
                      \o (IF longhold THEN <<Warning("EXCESSIVE_HOLD_PERIOD", "medium")>> ELSE <<>>)
                      \o (IF variance THEN <<Warning("HIGH_FORECAST_VARIANCE", "medium")>> ELSE <<>>)]

(***************************************************************************)
(* CHECK 2: _cross_validate_forecast                                       *)
(***************************************************************************)
\* PriceHistory.query.filter_by(crop=crop).filter(date >= today - 30)
CrossvalRowsAt(crop, day) ==
    {r \in price_history : r.crop = crop /\ r.date >= day - 30}

CrossvalRows(crop) == CrossvalRowsAt(crop, today)

\* .order_by(PriceHistory.date.asc()): first and last row of the ordered result
FirstByDate(rows) == CHOOSE r \in rows : \A o \in rows : r.date <= o.date

LastByDate(rows) == CHOOSE r \in rows : \A o \in rows : r.date >= o.date

\* divergence > 25 for baseline_peak = current * (1 + trend/30 * wait/100),
\* trend = (last - first) / first * 100: with D = 30 * first and
\* N = current * (D + (last - first) * wait), baseline_peak = N / D.
BaselineDivergence(first, last, current_price, peak_price, wait_days) ==
    LET D == IF first > 0 THEN 30 * first ELSE 1
        N == IF first > 0
             THEN current_price * (D + (last - first) * wait_days)
             ELSE current_price
    IN  /\ peak_price > 0
        /\ N > 0
        /\ Abs(peak_price * D - N) * 4 > N

_cross_validate_forecast(crop, current_price, peak_price, wait_days, raises) ==
    IF raises
    THEN [penalty |-> 0, warnings |-> <<>>]
    ELSE LET history == CrossvalRows(crop)
         IN  IF Cardinality(history) >= 7
             THEN IF BaselineDivergence(FirstByDate(history).price, LastByDate(history).price,
                                        current_price, peak_price, wait_days)
                  THEN [penalty  |-> 100,
                        warnings |-> <<Warning("FORECAST_BASELINE_DIVERGENCE", "medium")>>]
                  ELSE [penalty |-> 0, warnings |-> <<>>]
             ELSE [penalty  |-> 0,
                   warnings |-> <<Warning("INSUFFICIENT_CROSSVAL_DATA", "low")>>]

(***************************************************************************)
(* CHECK 3: _check_perishable_risk                                         *)
(***************************************************************************)
NoOverride == [field |-> "none"]

\* mutant: the override is issued only inside the high-volatility branch
_check_perishable_risk_HighRiskOnly(crop, recommendation, wait_days, risk_level) ==
    IF crop \notin DOMAIN PERISHABLE_CROPS
    THEN [penalty |-> 0, warnings |-> <<>>, override |-> NoOverride]
    ELSE LET perishable == PERISHABLE_CROPS[crop]
             max_days   == perishable.max_safe_days
             risky      == 2 * wait_days > max_days
             volatile   == risk_level = "HIGH"
             forced     == recommendation = "HOLD" /\ wait_days > max_days /\ volatile
         IN  [penalty  |-> (IF risky THEN 100 ELSE 0) + (IF forced THEN 150 ELSE 0)
                           + (IF volatile THEN perishable.high_risk_penalty ELSE 0),
              warnings |-> (IF risky THEN <<Warning("PERISHABLE_HOLD_RISK", "high")>> ELSE <<>>)
                           \o (IF forced THEN <<Warning("PERISHABLE_OVERRIDE", "critical")>> ELSE <<>>)
                           \o (IF volatile THEN <<Warning("PERISHABLE_HIGH_VOLATILITY", "high")>> ELSE <<>>),
              override |-> IF forced
                           THEN [field     |-> "recommendation",
                                 old_value |-> "HOLD",
                                 new_value |-> "SELL NOW",
                                 reason    |-> "Overseer override: crop cannot be safely stored"]
                           ELSE NoOverride]

_check_perishable_risk(crop, recommendation, wait_days, risk_level) ==
    IF crop \notin DOMAIN PERISHABLE_CROPS
    THEN [penalty |-> 0, warnings |-> <<>>, override |-> NoOverride]
    ELSE LET perishable == PERISHABLE_CROPS[crop]
             max_days   == perishable.max_safe_days
             risky      == 2 * wait_days > max_days
             forced     == recommendation = "HOLD" /\ wait_days > max_days
             volatile   == risk_level = "HIGH"
         IN  [penalty  |-> (IF risky THEN 100 ELSE 0) + (IF forced THEN 150 ELSE 0)
                           + (IF volatile THEN perishable.high_risk_penalty ELSE 0),
              warnings |-> (IF risky THEN <<Warning("PERISHABLE_HOLD_RISK", "high")>> ELSE <<>>)
                           \o (IF forced THEN <<Warning("PERISHABLE_OVERRIDE", "critical")>> ELSE <<>>)
                           \o (IF volatile THEN <<Warning("PERISHABLE_HIGH_VOLATILITY", "high")>> ELSE <<>>),
              override |-> IF forced
                           THEN [field     |-> "recommendation",
                                 old_value |-> "HOLD",
                                 new_value |-> "SELL NOW",
                                 reason    |-> "Overseer override: crop cannot be safely stored"]
                           ELSE NoOverride]

(***************************************************************************)
(* CHECK 4: _check_data_quality                                            *)
(***************************************************************************)
\* features is None (or empty) when .present is FALSE
\* mutant: a context with enough data points earns 0.05 back
_check_data_quality_RewardsComplete(features) ==
    IF features.present /\ features.data_points >= 3
    THEN [penalty |-> -50, warnings |-> <<>>]
    ELSE [penalty  |-> 100,
          warnings |-> <<Warning("NO_FEATURES_COMPUTED", "medium")>>]

_check_data_quality(features) ==
    IF ~features.present
    THEN [penalty  |-> 100,
          warnings |-> <<Warning("NO_FEATURES_COMPUTED", "medium")>>]
    ELSE LET sparse   == features.data_points < 3
             seasonal == features.seasonal = "default_pattern"
             rainfall == features.rainfall = "no_data"
         IN  [penalty  |-> (IF sparse THEN 50 ELSE 0) + (IF seasonal THEN 30 ELSE 0)
                           + (IF rainfall THEN 30 ELSE 0),
              warnings |-> (IF sparse THEN <<Warning("SPARSE_PRICE_DATA", "medium")>> ELSE <<>>)
                           \o (IF seasonal THEN <<Warning("DEFAULT_SEASONAL_DATA", "low")>> ELSE <<>>)
                           \o (IF rainfall THEN <<Warning("NO_WEATHER_HISTORY", "low")>> ELSE <<>>)]

(***************************************************************************)
(* CHECK 5: _detect_drift and _react_to_drift                              *)
(***************************************************************************)
\* filter_by(crop, mandi).filter(date >= today - 7)
RecentRowsAt(crop, mandi, day) ==
    {r \in price_history : r.crop = crop /\ r.mandi = mandi /\ r.date >= day - 7}

RecentRows(crop, mandi) == RecentRowsAt(crop, mandi, today)

\* filter_by(crop, mandi).filter(date >= today - 30, date < today - 7)
BaselineRowsAt(crop, mandi, day) ==
    {r \in price_history : r.crop = crop /\ r.mandi = mandi
                           /\ r.date >= day - 30 /\ r.date < day - 7}

BaselineRows(crop, mandi) == BaselineRowsAt(crop, mandi, today)

\* recent_mean - baseline_mean has the sign of SR * nB - SB * nR, and
\* shift_pct = |SR * nB - SB * nR| * 100 / (SB * nR) when baseline_mean > 0.
MeanGap(recent, baseline) ==
    SumPrice(recent) * Cardinality(baseline) - SumPrice(baseline) * Cardinality(recent)

ShiftDenominator(recent, baseline) == SumPrice(baseline) * Cardinality(recent)

\* shift_pct > pct, on the unrounded value
ShiftExceeds(recent, baseline, pct) ==
    /\ SumPrice(baseline) > 0
    /\ Abs(MeanGap(recent, baseline)) * 100 > pct * ShiftDenominator(recent, baseline)

\* round(shift_pct, 1), in tenths of a percent
RoundedShift(recent, baseline) ==
    IF SumPrice(baseline) > 0
    THEN RoundHalfEven(Abs(MeanGap(recent, baseline)) * 1000,
                       ShiftDenominator(recent, baseline))
    ELSE 0

\* mutant: the shift is measured on however few rows there are
_detect_drift_NoMinimumRows(crop, mandi, raises) ==
    IF raises
    THEN [drift_detected |-> FALSE, status |-> "error",
          shift_pct |-> 0, direction |-> "unknown"]
    ELSE LET recent_prices   == RecentRows(crop, mandi)
             baseline_prices == BaselineRows(crop, mandi)
         IN  IF recent_prices = {} \/ baseline_prices = {}
             THEN [drift_detected |-> FALSE, status |-> "insufficient",
                   shift_pct |-> 0, direction |-> "unknown"]
             ELSE [drift_detected |-> ShiftExceeds(recent_prices, baseline_prices, 10),
                   status    |-> "measured",
                   shift_pct |-> RoundedShift(recent_prices, baseline_prices),
                   direction |-> IF MeanGap(recent_prices, baseline_prices) > 0
                                 THEN "upward" ELSE "downward"]

_detect_drift(crop, mandi, raises) ==
    IF raises
    THEN [drift_detected |-> FALSE, status |-> "error",
          shift_pct |-> 0, direction |-> "unknown"]
    ELSE LET recent_prices   == RecentRows(crop, mandi)
             baseline_prices == BaselineRows(crop, mandi)
         IN  IF Cardinality(recent_prices) < 3 \/ Cardinality(baseline_prices) < 5
             THEN [drift_detected |-> FALSE, status |-> "insufficient",
                   shift_pct |-> 0, direction |-> "unknown"]
             ELSE [drift_detected |-> ShiftExceeds(recent_prices, baseline_prices, 10),
                   status    |-> "measured",
                   shift_pct |-> RoundedShift(recent_prices, baseline_prices),
                   direction |-> IF MeanGap(recent_prices, baseline_prices) > 0
                                 THEN "upward" ELSE "downward"]

\* mutant: the horizon override is built without its reason text
_react_to_drift_NoReason(drift_result, recommendation, wait_days) ==
    LET shift_pct == drift_result.shift_pct
        direction == drift_result.direction
        horizon == shift_pct > 150 /\ recommendation = "HOLD" /\ wait_days > 14
        sell    == shift_pct > 150 /\ direction = "downward" /\ recommendation = "HOLD"
        conservative == shift_pct > 100
    IN  [override |->
            IF sell
            THEN [field     |-> "recommendation",
                  old_value |-> "HOLD",
                  new_value |-> "SELL NOW",
                  reason    |-> "Drift detected: prices have dropped in the last week"]
            ELSE IF horizon
            THEN [field     |-> "wait_days",
                  old_value |-> wait_days,
                  new_value |-> 14,
                  reason    |-> ""]
            ELSE NoOverride,
         warnings |->
            (IF horizon THEN <<Warning("DRIFT_HORIZON_REDUCED", "high")>> ELSE <<>>)
            \o (IF sell THEN <<Warning("DRIFT_FORCED_SELL", "critical")>> ELSE <<>>)
            \o (IF conservative THEN <<Warning("DRIFT_CONSERVATIVE_MODE", "medium")>> ELSE <<>>)]

\* action['override'] is one slot: the second `if` overwrites what the first stored
_react_to_drift(drift_result, recommendation, wait_days) ==
    LET shift_pct == drift_result.shift_pct
        direction == drift_result.direction
        horizon == shift_pct > 150 /\ recommendation = "HOLD" /\ wait_days > 14
        sell    == shift_pct > 150 /\ direction = "downward" /\ recommendation = "HOLD"
        conservative == shift_pct > 100
    IN  [override |->
            IF sell
            THEN [field     |-> "recommendation",
                  old_value |-> "HOLD",
                  new_value |-> "SELL NOW",
                  reason    |-> "Drift detected: prices have dropped in the last week"]
            ELSE IF horizon
            THEN [field     |-> "wait_days",
                  old_value |-> wait_days,
                  new_value |-> 14,
                  reason    |-> "Drift detected: reducing forecast horizon to 14 days"]
            ELSE NoOverride,
         warnings |->
            (IF horizon THEN <<Warning("DRIFT_HORIZON_REDUCED", "high")>> ELSE <<>>)
            \o (IF sell THEN <<Warning("DRIFT_FORCED_SELL", "critical")>> ELSE <<>>)
            \o (IF conservative THEN <<Warning("DRIFT_CONSERVATIVE_MODE", "medium")>> ELSE <<>>)]

(***************************************************************************)
(* CHECK 6: _check_historical_accuracy                                     *)
(***************************************************************************)
\* filter_by(metric_type='price_forecast'), entity_id contains crop,
\* recorded_at >= utcnow - 90 days, error_pct is not NULL
AccuracyRowsAt(crop, day) ==
    {m \in evaluation_metrics : m.metric_type = "price_forecast" /\ m.crop = crop
                                /\ m.recorded_at >= day - 90}

AccuracyRows(crop) == AccuracyRowsAt(crop, today)

\* mutant: the self-check also counts the audit rows of earlier evaluations
_check_historical_accuracy_ReadsAudit(crop, raises) ==
    IF raises
    THEN [penalty |-> 0, warnings |-> <<>>]
    ELSE IF overseer_log # <<>>
    THEN [penalty  |-> 150,
          warnings |-> <<Warning("HIGH_HISTORICAL_ERROR", "high")>>]
    ELSE [penalty  |-> 0,
          warnings |-> <<Warning("NO_ACCURACY_HISTORY", "low")>>]

_check_historical_accuracy(crop, raises) ==
    IF raises
    THEN [penalty |-> 0, warnings |-> <<>>]
    ELSE LET metrics == AccuracyRows(crop)
             n == Cardinality(metrics)
         IN  IF n = 0
             THEN [penalty  |-> 0,
                   warnings |-> <<Warning("NO_ACCURACY_HISTORY", "low")>>]
             ELSE IF SumError(metrics) > 25 * n
             THEN [penalty  |-> 150,
                   warnings |-> <<Warning("HIGH_HISTORICAL_ERROR", "high")>>]
             ELSE IF SumError(metrics) > 15 * n
             THEN [penalty  |-> 80,
                   warnings |-> <<Warning("MODERATE_HISTORICAL_ERROR", "medium")>>]
             ELSE [penalty |-> 0, warnings |-> <<>>]

(***************************************************************************)
(* Overseer.evaluate                                                       *)
(***************************************************************************)
None == "None"

\* mutant: the lower bound of the clamp is lost
ClampConfidence_NoFloor(score) == Min(CONFIDENCE_CEILING, score)

\* max(CONFIDENCE_FLOOR, min(CONFIDENCE_CEILING, score))
ClampConfidence(score) == Max(CONFIDENCE_FLOOR, Min(CONFIDENCE_CEILING, score))

\* mutant: a low score alone no longer flags the recommendation
Verdict_NoScoreFlag(overrides, anomalies, adjusted_confidence, warnings) ==
    IF overrides # <<>> THEN "OVERRIDDEN"
    ELSE IF anomalies >= 2 THEN "FLAGGED"
    ELSE IF warnings # <<>> THEN "APPROVED_WITH_WARNINGS"
    ELSE "APPROVED"

Verdict(overrides, anomalies, adjusted_confidence, warnings) ==
    IF overrides # <<>> THEN "OVERRIDDEN"
    ELSE IF anomalies >= 2 \/ adjusted_confidence < 500 THEN "FLAGGED"
    ELSE IF warnings # <<>> THEN "APPROVED_WITH_WARNINGS"
    ELSE "APPROVED"

\* `for o in overrides: if o['field'] == 'recommendation': ...`: the last
\* override of the recommendation decides final_decision and override_reason.
RECURSIVE FinalDecision(_, _)
FinalDecision(overrides, start) ==
    IF overrides = <<>> THEN start
    ELSE LET o == Head(overrides)
         IN  FinalDecision(Tail(overrides),
                           IF o.field = "recommendation"
                           THEN [decision |-> o.new_value, reason |-> o.reason]
                           ELSE start)

\* The body of evaluate up to the call of _log_to_db.  `unavailable` names the
\* database operations that raise during this call; each check catches its own
\* exception.  Returns the dict `oversight`, the running score after every
\* check, and the keyword arguments of _log_to_db.
evaluate(recommendation_data, forecast_data, features, unavailable) ==
    LET crop           == recommendation_data.crop
        current_price  == recommendation_data.current_price_per_quintal
        peak_price     == recommendation_data.peak_price_per_quintal
        wait_days      == recommendation_data.wait_days
        risk_level     == recommendation_data.risk_level
        recommendation == recommendation_data.recommendation
        mandi          == recommendation_data.mandi
        anomaly_result    == _check_anomalies(current_price, peak_price, wait_days, forecast_data)
        crossval_result   == _cross_validate_forecast(crop, current_price, peak_price, wait_days,
                                                      "crossval" \in unavailable)
        perishable_result == _check_perishable_risk(crop, recommendation, wait_days, risk_level)
        quality_result    == _check_data_quality(features)
        drift_result      == _detect_drift(crop, mandi, "drift" \in unavailable)
        drift_action      == IF drift_result.drift_detected
                             THEN _react_to_drift(drift_result, recommendation, wait_days)
                             ELSE [override |-> NoOverride, warnings |-> <<>>]
        accuracy_result   == _check_historical_accuracy(crop, "accuracy" \in unavailable)
        score1 == CONFIDENCE_CEILING - anomaly_result.penalty
        score2 == score1 - crossval_result.penalty
        score3 == score2 - perishable_result.penalty
        score4 == score3 - quality_result.penalty
        score5 == score4 - (IF drift_result.drift_detected THEN 100 ELSE 0)
        score6 == score5 - accuracy_result.penalty
        warnings1 == anomaly_result.warnings
        warnings2 == warnings1 \o crossval_result.warnings
        warnings3 == warnings2 \o perishable_result.warnings
        warnings4 == warnings3 \o quality_result.warnings
        warnings5 == warnings4
                     \o (IF drift_result.drift_detected
                         THEN <<Warning("DRIFT_DETECTED", "medium")>> \o drift_action.warnings
                         ELSE <<>>)
        warnings6 == warnings5 \o accuracy_result.warnings
        overrides ==
            (IF perishable_result.override.field # "none"
             THEN <<perishable_result.override>> ELSE <<>>)
            \o (IF drift_action.override.field # "none"
                THEN <<drift_action.override>> ELSE <<>>)
        anomalies == anomaly_result.count
        adjusted_confidence == ClampConfidence(score6)
        verdict == Verdict(overrides, anomalies, adjusted_confidence, warnings6)
        final == FinalDecision(overrides, [decision |-> recommendation, reason |-> None])
    IN  [oversight |->
            [adjusted_confidence |-> adjusted_confidence,
             original_confidence |-> CONFIDENCE_CEILING,
             warnings            |-> warnings6,
             warning_count       |-> Len(warnings6),
             overrides           |-> overrides,
             anomalies_detected  |-> anomalies,
             drift_status        |-> drift_result,
             drift_action        |-> drift_action,
             verdict             |-> verdict],
         scores   |-> <<CONFIDENCE_CEILING, score1, score2, score3, score4, score5, score6>>,
         trail    |-> <<<<>>, warnings1, warnings2, warnings3, warnings4, warnings5, warnings6>>,
         log_args |->
            [crop              |-> crop,
             mandi             |-> mandi,
             original_decision |-> recommendation,
             final_decision    |-> final.decision,
             reason            |-> final.reason,
             verdict           |-> verdict,
             confidence_before |-> CONFIDENCE_CEILING,
             confidence_after  |-> adjusted_confidence,
             warning_count     |-> Len(warnings6),
             anomaly_count     |-> anomalies,
             drift_detected    |-> drift_result.drift_detected,
             warnings_list     |-> warnings6]]

(***************************************************************************)
(* _log_to_db                                                              *)
(***************************************************************************)
\* OverseerLog(...) ; db.session.add ; db.session.commit, inside try/except:
\* when any of them raises the exception is logged, the session rolled back
\* and no row is stored.  Returns the table after the call.
_log_to_db(kwargs, raises) ==
    IF raises
    THEN overseer_log
    ELSE Append(overseer_log,
                [crop              |-> kwargs.crop,
                 mandi             |-> kwargs.mandi,
                 original_decision |-> kwargs.original_decision,
                 final_decision    |-> kwargs.final_decision,
                 reason            |-> kwargs.reason,
                 verdict           |-> kwargs.verdict,
                 confidence_before |-> kwargs.confidence_before,
                 confidence_after  |-> kwargs.confidence_after,
                 warning_count     |-> kwargs.warning_count,
                 anomaly_count     |-> kwargs.anomaly_count,
                 drift_detected    |-> kwargs.drift_detected,
                 warnings_json     |-> kwargs.warnings_list])

\* mutant: the except clause re-raises after the rollback
_log_to_db_reraises(raises) == raises

\* whether an exception leaves _log_to_db: `except Exception` catches what the
\* constructor, add or commit raised, so nothing does
_log_to_db_propagates(raises) == FALSE

(***************************************************************************)
(* Stores at start-up and the requests served                              *)
(***************************************************************************)
Crops == {"Onion", "Sugarcane", "Tomato", "Wheat"}

\* the day number of `today` in the initial state
Day0 == 100

\* Prices of the baseline window (8..30 days old) are BasePrice + BaselineOffset[i],
\* those of the recent window (1, 4 and 7 days old) are recent + RecentOffset[j].
BasePrice == 2500

BaselineOffset == <<-100, 100, 0, -50, 50>>

RecentOffset == <<-10, 10, 0>>

\* One market's rows for every crop: nB baseline rows, nR recent rows with
\* mean price about `recent`, and one row of another mandi when the table is
\* not empty.
HistoryRows(nB, nR, recent) ==
    {[crop |-> c, mandi |-> "Pune Mandi", date |-> Day0 - 8 - i,
      price |-> BasePrice + BaselineOffset[i]] : c \in Crops, i \in 1..nB}
    \cup {[crop |-> c, mandi |-> "Pune Mandi", date |-> Day0 - (3 * j - 2),
           price |-> recent + RecentOffset[j]] : c \in Crops, j \in 1..nR}
    \cup {[crop |-> c, mandi |-> "Nashik Mandi", date |-> Day0 - 20,
           price |-> BasePrice] : c \in IF nB + nR > 0 THEN Crops ELSE {}}

\* empty table; too few recent rows; no shift; 10.04%, 15.04% and 20% downward;
\* 20% upward; 20% downward on too few recent rows
Histories ==
    {HistoryRows(0, 0, BasePrice), HistoryRows(5, 2, BasePrice),
     HistoryRows(5, 3, BasePrice), HistoryRows(5, 3, 2249),
     HistoryRows(5, 3, 2124), HistoryRows(5, 3, 2000), HistoryRows(5, 3, 3000),
     HistoryRows(5, 2, 2000)}

\* Tracked forecast errors of every crop around `avg` percent, next to a row
\* of another metric type and a row older than 90 days.
MetricRows(avg) ==
    {[metric_type |-> "price_forecast", crop |-> c, recorded_at |-> Day0 - 10 * k,
      error_pct |-> avg + 4 * k - 6] : c \in Crops, k \in 1..2}
    \cup {[metric_type |-> "yield", crop |-> c, recorded_at |-> Day0 - 5,
           error_pct |-> 90] : c \in Crops}
    \cup {[metric_type |-> "price_forecast", crop |-> c, recorded_at |-> Day0 - 95,
           error_pct |-> 90] : c \in Crops}

Metrics == {{}, MetricRows(10), MetricRows(20), MetricRows(30)}

\* the stores evaluate is run on: every history with accurate tracking, every
\* tracking record with a steady history, and a falling market with poor tracking
Stores ==
    {[price_history |-> h, evaluation_metrics |-> MetricRows(10)] : h \in Histories}
    \cup {[price_history |-> HistoryRows(5, 3, BasePrice), evaluation_metrics |-> m] :
             m \in Metrics}
    \cup {[price_history |-> HistoryRows(5, 3, 2000), evaluation_metrics |-> MetricRows(30)]}

NoFeatures == [present |-> FALSE, data_points |-> 0, seasonal |-> "none", rainfall |-> "none"]

CompleteFeatures ==
    [present |-> TRUE, data_points |-> 12, seasonal |-> "above_average", rainfall |-> "normal"]

DegradedFeatures ==
    [present |-> TRUE, data_points |-> 2, seasonal |-> "default_pattern", rainfall |-> "no_data"]

\* forecast_data['forecast'] prices: a steady series and a volatile one
SteadyForecast == <<250, 255, 260>>

VolatileForecast == <<150, 250, 350>>

\* (current price, peak price, forecast_data, features) of a request
Contexts ==
    {[current |-> 2500, peak |-> 2600, forecast |-> SteadyForecast,   features |-> CompleteFeatures],
     [current |-> 2500, peak |-> 2600, forecast |-> <<>>,             features |-> NoFeatures],
     [current |-> 2500, peak |-> 3100, forecast |-> VolatileForecast, features |-> NoFeatures],
     [current |-> 2500, peak |-> 3100, forecast |-> SteadyForecast,   features |-> CompleteFeatures],
     [current |-> 2500, peak |-> 3400, forecast |-> SteadyForecast,   features |-> CompleteFeatures],
     [current |-> 2500, peak |-> 2000, forecast |-> <<>>,             features |-> DegradedFeatures],
     [current |-> 0,    peak |-> 2600, forecast |-> VolatileForecast, features |-> CompleteFeatures]}

WaitDays == {0, 2, 5, 10, 15, 90}

Recommendations ==
    {[crop |-> c, mandi |-> "Pune Mandi", recommendation |-> d, wait_days |-> w,
      risk_level |-> k, current_price_per_quintal |-> x.current,
      peak_price_per_quintal |-> x.peak, forecast |-> x.forecast, features |-> x.features] :
        c \in Crops, d \in {"HOLD", "SELL NOW"}, w \in WaitDays,
        k \in {"LOW", "HIGH"}, x \in Contexts}

\* the database operations of one evaluate call that may raise
Outages ==
    {{}, {"crossval"}, {"drift"}, {"accuracy"}, {"audit"},
     {"crossval", "drift", "accuracy", "audit"}}

NoCall == [made |-> FALSE]

(***************************************************************************)
(* One call of Overseer.evaluate                                           *)
(***************************************************************************)
Evaluate(r, unavailable) ==
    /\ pc = "idle"
    /\ LET out == evaluate(r, r.forecast, r.features, unavailable)
           raised == _log_to_db_propagates("audit" \in unavailable)
       IN  /\ oversight' = IF raised THEN NoCall ELSE out.oversight
           /\ pc' = IF raised THEN "raised" ELSE "returned"
           /\ log_args' = out.log_args
           /\ overseer_log' = _log_to_db(out.log_args, "audit" \in unavailable)
           /\ call' = [made |-> TRUE, recommendation_data |-> r,
                       unavailable |-> unavailable, date |-> today,
                       scores |-> out.scores, trail |-> out.trail,
                       overrides |-> out.oversight.overrides,
                       verdict |-> out.oversight.verdict,
                       adjusted_confidence |-> out.oversight.adjusted_confidence]
    /\ prev' = call
    /\ calls' = calls + 1
    /\ UNCHANGED <<today, price_history, evaluation_metrics>>
    /\ UNCHANGED forecast_vars
    /\ UNCHANGED loader_vars
    /\ UNCHANGED scenario_vars
    /\ UNCHANGED market_vars
    /\ UNCHANGED advice_vars

(***************************************************************************)
(* Part II: predict() and forecast() of the commodity predictors           *)
(*                                                                         *)
(* Prices inside a call are in paise (1/100 rupee); the prices a call      *)
(* reports are round()ed to whole rupees.  A product x * k / 100 is cut to *)
(* whole paise.  The regressor is a learned artefact: its output for a     *)
(* feature row is an input of the model, drawn per day.                    *)
(***************************************************************************)
GROUNDNUT_MSP_2025 == 6783

PADDY_MSP_2025 == 2300

KARNATAKA_MAX_DAILY_PCT == 3

MAHARASHTRA_MAX_DAILY_PCT == 15

\* floor in paise: MSP * 0.85, MSP * 0.80, 1000.0, 150.0
PREDICTORS ==
    [groundnut |-> [floor |-> GROUNDNUT_MSP_2025 * 85, max_daily_pct |-> KARNATAKA_MAX_DAILY_PCT],
     paddy     |-> [floor |-> PADDY_MSP_2025 * 80,     max_daily_pct |-> KARNATAKA_MAX_DAILY_PCT],
     coconut   |-> [floor |-> 1000 * 100,              max_daily_pct |-> KARNATAKA_MAX_DAILY_PCT],
     cabbage   |-> [floor |-> 150 * 100,               max_daily_pct |-> MAHARASHTRA_MAX_DAILY_PCT]]

\* round(price): paise to whole rupees
RoundRupees(paise) == RoundHalfEven(paise, 100)

\* price * (1 + boost / 100)
FestivalBoost(price, boost) == (price * (100 + boost)) \div 100

\* predict(): raw + corr, festival boost, then the floor; raw and corr in paise
PredictPrice(cfg, raw, corr, boost) == Max(FestivalBoost(raw + corr, boost), cfg.floor)

predict(cfg, raw, corr, boost) ==
    LET price_adj == PredictPrice(cfg, raw, corr, boost)
    IN  [predicted_price |-> RoundRupees(price_adj),
         festival_boost  |-> boost]

\* mutant: the forecast loop forgets the floor
FloorPrice_None(cfg, raw, corr) == raw + corr

\* the floor of the forecast loop: max(raw + corr, floor), before the boost
FloorPrice(cfg, raw, corr) == Max(raw + corr, cfg.floor)

\* mutant: only upward jumps are capped
ClampDaily_UpOnly(cfg, prev_price, price) ==
    LET max_delta == (prev_price * cfg.max_daily_pct) \div 100
    IN  IF price - prev_price > max_delta THEN prev_price + max_delta ELSE price

\* `if abs(price - prev_price) > max_delta: price = prev_price + direction * max_delta`
ClampDaily(cfg, prev_price, price) ==
    LET max_delta == (prev_price * cfg.max_daily_pct) \div 100
    IN  IF Abs(price - prev_price) > max_delta
        THEN IF price > prev_price THEN prev_price + max_delta ELSE prev_price - max_delta
        ELSE price

\* one iteration of the loop of forecast(): the day's unrounded price
DayPrice(cfg, prev_price, raw, corr, boost) ==
    ClampDaily(cfg, prev_price, FestivalBoost(FloorPrice(cfg, raw, corr), boost))

\* the loop of forecast() over the model outputs of the days 1..days;
\* returns rolling_prices and forecast_list
RECURSIVE Roll(_, _, _, _, _)
Roll(cfg, corr, prices, points, outputs) ==
    IF outputs = <<>>
    THEN [rolling_prices |-> prices, forecast_list |-> points]
    ELSE LET o     == Head(outputs)
             price == DayPrice(cfg, prices[Len(prices)], o.raw, corr, o.boost)
         IN  Roll(cfg, corr, Append(prices, price),
                  Append(points, [price |-> RoundRupees(price), festival_boost |-> o.boost]),
                  Tail(outputs))

forecast(cfg, corr, today_output, outputs) ==
    LET today_res   == predict(cfg, today_output.raw, corr, today_output.boost)
        today_price == today_res.predicted_price
        rolled      == Roll(cfg, corr, <<today_price * 100>>, <<>>, outputs)
    IN  [today          |-> today_res,
         forecast       |-> rolled.forecast_list,
         rolling_prices |-> rolled.rolling_prices]

\* LOSS_PER_DAY of the predictors, in hundredths of a percent per day
LOSS_PER_DAY == [groundnut |-> 25, paddy |-> 10, coconut |-> 40, cabbage |-> 300]

\* f["price"] * (1 - LOSS_PER_DAY * (i + 1) / 100) for the i-th forecast day
\* (i from 1), in 1/10000 rupee
NetPrice(c, price, i) == price * (10000 - LOSS_PER_DAY[c] * i)

\* `if storage_days > 0`, and for cabbage `if storage_days > 0 and storage_days <= 7`
StorageGate(c, storage_days) ==
    /\ storage_days > 0
    /\ c = "cabbage" => storage_days <= 7

SellToday(today_price) ==
    [day |-> 0, price |-> today_price, net_price |-> today_price, gain_pct |-> 0]

\* the loop over forecast_list[:storage_days]: a day replaces the best so far
\* when its net price exceeds the stored (rounded) net_price of the best;
\* gain_pct is kept in tenths of a percent
RECURSIVE BestDayScan(_, _, _, _, _)
BestDayScan(c, today_price, points, i, best) ==
    IF i > Len(points)
    THEN best
    ELSE LET net == NetPrice(c, points[i].price, i)
         IN  BestDayScan(c, today_price, points, i + 1,
                IF net > best.net_price * 10000
                THEN [day       |-> i,
                      price     |-> points[i].price,
                      net_price |-> RoundHalfEven(net, 10000),
                      gain_pct  |-> RoundHalfEven(net - today_price * 10000, today_price * 10)]
                ELSE best)

BestSellDay(c, today_price, points, storage_days) ==
    IF StorageGate(c, storage_days)
    THEN BestDayScan(c, today_price, SubSeq(points, 1, Min(storage_days, Len(points))),
                     1, SellToday(today_price))
    ELSE SellToday(today_price)

\* storage_days as get_forecast passes it: 30, and 7 for cabbage
GetForecastStorageDays(c) == IF c = "cabbage" THEN 7 ELSE 30

\* --- inputs of the predictor calls -------------------------------------
MaxDays == 3

Commodities == DOMAIN PREDICTORS

\* regressor outputs in rupees: below the floor, near it, far above it
RawOutputs ==
    [groundnut |-> <<5000, 6020, 9000>>,
     paddy     |-> <<1500, 2320, 3500>>,
     coconut   |-> <<800, 1020, 2000>>,
     cabbage   |-> <<100, 153, 400>>]

\* month bias corrections in rupees
BiasCorrections == {-90, 0}

\* (regressor output, festival boost in percent) of a day; 0: no festival,
\* and a festival falls on a day of low or of ordinary prices
OutputCases == {<<1, 0>>, <<1, 10>>, <<2, 0>>, <<2, 10>>, <<3, 0>>}

DayOutputs(c) == {[raw |-> RawOutputs[c][k[1]] * 100, boost |-> k[2]] : k \in OutputCases}

NoForecast == [made |-> FALSE]

\* predictor.predict(market, date, quantity)
Predict(c, corr, o) ==
    /\ fpc = "idle"
    /\ fcall' = [made |-> TRUE, op |-> "predict", commodity |-> c, days |-> 0,
                 corr |-> corr * 100, today_output |-> o, outputs |-> <<>>]
    /\ today_result' = predict(PREDICTORS[c], o.raw, corr * 100, o.boost)
    /\ rolling_prices' = <<>>
    /\ forecast_list' = <<>>
    /\ best_day' = NoForecast
    /\ fpc' = "done"
    /\ UNCHANGED overseer_vars
    /\ UNCHANGED loader_vars
    /\ UNCHANGED scenario_vars
    /\ UNCHANGED market_vars
    /\ UNCHANGED advice_vars

\* predictor.forecast(market, days, quantity)
Forecast(c, corr, o, outputs, storage_days) ==
    /\ fpc = "idle"
    /\ LET out == forecast(PREDICTORS[c], corr * 100, o, outputs)
       IN  /\ today_result' = out.today
           /\ rolling_prices' = out.rolling_prices
           /\ forecast_list' = out.forecast
           /\ best_day' = BestSellDay(c, out.today.predicted_price, out.forecast, storage_days)
    /\ fcall' = [made |-> TRUE, op |-> "forecast", commodity |-> c, days |-> Len(outputs),
                 corr |-> corr * 100, today_output |-> o, outputs |-> outputs,
                 storage_days |-> storage_days]
    /\ fpc' = "done"
    /\ UNCHANGED overseer_vars
    /\ UNCHANGED loader_vars
    /\ UNCHANGED scenario_vars
    /\ UNCHANGED market_vars
    /\ UNCHANGED advice_vars

(***************************************************************************)
(* Part III: the forecaster singletons under concurrent requests           *)
(*                                                                         *)
(* KarnatakaForecaster and MaharashtraForecaster keep one class attribute  *)
(* per commodity.  A request thread runs get_forecast: _ensure_loaded      *)
(* tests the attribute, constructs the predictor, stores it; _predictor    *)
(* reads the attribute back; forecast() then runs its loop on locals.      *)
(* The steps between which another thread can run are separate actions.    *)
(* The regressor is deterministic: its output is a function of the lag     *)
(* feature and the day.                                                    *)
(***************************************************************************)
Threads == 1..2

MaxRequests == 2

ForecastDays == 2

\* price_lags_latest.csv: the 7-day lag of the served market, in paise
LatestLags ==
    [groundnut |-> 600000, paddy |-> 230000, coconut |-> 110000, cabbage |-> 40000]

\* what _load reads from the artefact directory
LoadedBundle(c) == [price_lags |-> LatestLags[c], bias |-> 0, festivals |-> 0]

\* stand-in for model.predict(row): the lag feature moved by the day's swing
Swing(i) == IF i = 0 THEN 0 ELSE IF i % 2 = 1 THEN 8 ELSE -12

ModelOutput(lag, i) == (lag * (100 + Swing(i))) \div 100

\* rolling_lag = alpha * price + (1 - alpha) * rolling_lag; alpha is 0.3 for
\* the Karnataka predictors and 0.4 for cabbage
Alpha(c) == IF c = "cabbage" THEN 4 ELSE 3

BlendLag(c, price, lag) == (Alpha(c) * price + (10 - Alpha(c)) * lag) \div 10

\* mutant: forecast() keeps its rolling lag on the predictor's lag snapshot
BundleAfterDay_WritesLag(c, bundle, price, lag) ==
    [bundle EXCEPT !.price_lags = BlendLag(c, price, lag)]

\* the bundle after one iteration of the loop of forecast(): only read
BundleAfterDay(c, bundle, price, lag) == bundle

\* forecast() run alone on a bundle: today's price, then the loop
RECURSIVE RollAlone(_, _, _, _, _, _)
RollAlone(c, bundle, prices, points, lag, i) ==
    IF i > ForecastDays
    THEN [today |-> prices[1] \div 100, forecast |-> points]
    ELSE LET price == DayPrice(PREDICTORS[c], prices[Len(prices)],
                               ModelOutput(lag, i), bundle.bias, bundle.festivals)
         IN  RollAlone(c, bundle, Append(prices, price),
                       Append(points, RoundRupees(price)), BlendLag(c, price, lag), i + 1)

TodayPrice(c, bundle) ==
    predict(PREDICTORS[c], ModelOutput(bundle.price_lags, 0),
            bundle.bias, bundle.festivals).predicted_price

ForecastAlone(c, bundle) ==
    RollAlone(c, bundle, <<TodayPrice(c, bundle) * 100>>, <<>>, bundle.price_lags, 1)

NoResult == [kind |-> "none"]

IdleThread ==
    [pc |-> "idle", crop |-> "none", built |-> 0, predictor |-> 0, day |-> 0,
     rolling_lag |-> 0, rolling_prices |-> <<>>, forecast_list |-> <<>>,
     result |-> NoResult, served |-> 0, caller |-> "none"]

LoaderIdle ==
    /\ slot = [c \in Commodities |-> 0]
    /\ heap = [c \in Commodities |-> <<>>]
    /\ missing = {}
    /\ threads = [t \in Threads |-> IdleThread]

\* The code that calls get_forecast: the dashboard route and
\* PriceService.forecast_price call KarnatakaForecaster inside try/except;
\* nothing in the backend wraps MaharashtraForecaster.get_forecast.
CallersOf(c) == IF c = "cabbage" THEN {"direct"} ELSE {"dashboard", "price_service"}

\* What a request returns when the constructor raised: the dashboard leaves
\* karnataka_forecast None, forecast_price logs a warning and goes on to the
\* forecast of the generic PriceService model, a direct call gets the
\* exception.
LoadFailureResult(caller) ==
    CASE caller = "dashboard"     -> [kind |-> "absent"]
      [] caller = "price_service" -> [kind |-> "fallback"]
      [] OTHER                    -> [kind |-> "raised"]

\* a caller enters get_forecast(crop, market)
Request(t, c, caller) ==
    /\ threads[t].pc \in {"idle", "done"}
    /\ threads[t].served < MaxRequests
    /\ threads' = [threads EXCEPT ![t] =
                      [IdleThread EXCEPT !.pc = "ensure", !.crop = c,
                                         !.caller = caller,
                                         !.served = threads[t].served]]
    /\ UNCHANGED <<slot, heap, missing>>
    /\ UNCHANGED <<overseer_vars, forecast_vars, scenario_vars, market_vars,
                   advice_vars>>

\* _ensure_loaded: `if crop_l == ... and cls._x is None`
EnsureLoaded(t) ==
    /\ threads[t].pc = "ensure"
    /\ threads' = [threads EXCEPT ![t].pc =
                      IF slot[threads[t].crop] = 0 THEN "construct" ELSE "lookup"]
    /\ UNCHANGED <<slot, heap, missing>>
    /\ UNCHANGED <<overseer_vars, forecast_vars, scenario_vars, market_vars,
                   advice_vars>>

\* the constructor: _load reads the artefact files and raises when one is
\* missing; nothing is assigned to the slot and the exception leaves
\* get_forecast for the caller
Construct(t) ==
    /\ threads[t].pc = "construct"
    /\ LET c == threads[t].crop
       IN  IF c \in missing
           THEN /\ threads' = [threads EXCEPT ![t].pc = "done",
                                              ![t].result = LoadFailureResult(threads[t].caller),
                                              ![t].served = @ + 1]
                /\ heap' = heap
           ELSE /\ heap' = [heap EXCEPT ![c] = Append(@, LoadedBundle(c))]
                /\ threads' = [threads EXCEPT ![t].pc = "store",
                                              ![t].built = Len(heap[c]) + 1]
    /\ UNCHANGED <<slot, missing>>
    /\ UNCHANGED <<overseer_vars, forecast_vars, scenario_vars, market_vars,
                   advice_vars>>

\* `cls._x = <the new predictor>`
Store(t) ==
    /\ threads[t].pc = "store"
    /\ slot' = [slot EXCEPT ![threads[t].crop] = threads[t].built]
    /\ threads' = [threads EXCEPT ![t].pc = "lookup"]
    /\ UNCHANGED <<heap, missing>>
    /\ UNCHANGED <<overseer_vars, forecast_vars, scenario_vars, market_vars,
                   advice_vars>>

\* _predictor: `return cls._x`
Lookup(t) ==
    /\ threads[t].pc = "lookup"
    /\ threads' = [threads EXCEPT ![t].pc = "today",
                                  ![t].predictor = slot[threads[t].crop]]
    /\ UNCHANGED <<slot, heap, missing>>
    /\ UNCHANGED <<overseer_vars, forecast_vars, scenario_vars, market_vars,
                   advice_vars>>

\* forecast(): today_result = self.predict(...), the lags of the CSV and
\* rolling_prices = [today_price]
StartForecast(t) ==
    /\ threads[t].pc = "today"
    /\ LET c      == threads[t].crop
           bundle == heap[c][threads[t].predictor]
       IN  threads' = [threads EXCEPT
                          ![t].pc = "loop",
                          ![t].day = 1,
                          ![t].rolling_lag = bundle.price_lags,
                          ![t].rolling_prices = <<TodayPrice(c, bundle) * 100>>]
    /\ UNCHANGED <<slot, heap, missing>>
    /\ UNCHANGED <<overseer_vars, forecast_vars, scenario_vars, market_vars,
                   advice_vars>>

\* one iteration of the loop of forecast()
ForecastDay(t) ==
    /\ threads[t].pc = "loop"
    /\ threads[t].day <= ForecastDays
    /\ LET c      == threads[t].crop
           me     == threads[t]
           bundle == heap[c][me.predictor]
           price  == DayPrice(PREDICTORS[c], me.rolling_prices[Len(me.rolling_prices)],
                              ModelOutput(me.rolling_lag, me.day),
                              bundle.bias, bundle.festivals)
       IN  /\ threads' = [threads EXCEPT
                             ![t].day = @ + 1,
                             ![t].rolling_prices = Append(@, price),
                             ![t].rolling_lag = BlendLag(c, price, me.rolling_lag),
                             ![t].forecast_list = Append(@, RoundRupees(price))]
           /\ heap' = [heap EXCEPT ![c][me.predictor] =
                          BundleAfterDay(c, bundle, price, me.rolling_lag)]
    /\ UNCHANGED <<slot, missing>>
    /\ UNCHANGED <<overseer_vars, forecast_vars, scenario_vars, market_vars,
                   advice_vars>>

\* forecast() returns
ReturnForecast(t) ==
    /\ threads[t].pc = "loop"
    /\ threads[t].day > ForecastDays
    /\ threads' = [threads EXCEPT
                      ![t].pc = "done",
                      ![t].served = @ + 1,
                      ![t].result = [kind     |-> "forecast",
                                     today    |-> threads[t].rolling_prices[1] \div 100,
                                     forecast |-> threads[t].forecast_list]]
    /\ UNCHANGED <<slot, heap, missing>>
    /\ UNCHANGED <<overseer_vars, forecast_vars, scenario_vars, market_vars,
                   advice_vars>>

(***************************************************************************)
(* Part IV: the scenario confidence of the yield pipeline                  *)
(*                                                                         *)
(* _compute_scenario_confidence works on one scenario at a time (the numpy *)
(* operations are elementwise).  mean_pred, ci_low and ci_high are yields  *)
(* in kg/ha, cv_conf_pct is a percentage.  The relative width is the       *)
(* fraction num / den; every later quantity is kept as a numerator over    *)
(* 20 * den, so that 0.05, 0.5, 1.2, 0.3, 1.1, 5 and 98 are whole numbers  *)
(* of that unit and no division is rounded.                                *)
(***************************************************************************)
\* np.clip(x, lo, hi)
Clip(x, lo, hi) == Min(Max(x, lo), hi)

\* rel_width = np.where(mean_pred != 0, width / np.abs(mean_pred), width)
RelWidth(mean_pred, ci_low, ci_high) ==
    [num |-> ci_high - ci_low,
     den |-> IF mean_pred # 0 THEN Abs(mean_pred) ELSE 1]

\* mutant: the factor 1.2 - rel_width_clipped / 0.5 is used as computed
_compute_scenario_confidence_FactorUnclipped(mean_pred, ci_low, ci_high, cv_conf_pct) ==
    LET base == Clip(cv_conf_pct, 0, 100)
        rel_width == RelWidth(mean_pred, ci_low, ci_high)
        d == rel_width.den
        rel_width_clipped == Clip(20 * rel_width.num, d, 10 * d)
        interval_factor == 24 * d - 2 * rel_width_clipped
    IN  [num |-> Clip(base * interval_factor, 100 * d, 1960 * d), den |-> 20 * d]

_compute_scenario_confidence(mean_pred, ci_low, ci_high, cv_conf_pct) ==
    LET base == Clip(cv_conf_pct, 0, 100)
        rel_width == RelWidth(mean_pred, ci_low, ci_high)
        d == rel_width.den
        \* np.clip(rel_width, 0.05, 0.5), over 20 * d
        rel_width_clipped == Clip(20 * rel_width.num, d, 10 * d)
        \* 1.2 - rel_width_clipped / 0.5, over 20 * d
        linear == 24 * d - 2 * rel_width_clipped
        \* np.clip(interval_factor, 0.3, 1.1)
        interval_factor == Clip(linear, 6 * d, 22 * d)
        \* np.clip(base * interval_factor, 5.0, 98.0)
        conf_ == Clip(base * interval_factor, 100 * d, 1960 * d)
    IN  [num |-> conf_, den |-> 20 * d]

\* predicted yields, half-widths 1.96 * std of the interval around them and
\* cross-validation confidences of the model metadata
MeanPreds == {-1000, 0, 1000, 2000}

HalfWidths == {0, 10, 25, 50, 125, 225, 235, 250, 300}

CvConfidences == {-10, 0, 4, 50, 80, 89, 100, 120}

NoScenario == [made |-> FALSE]

ScenarioIdle ==
    /\ scenario = NoScenario
    /\ conf = [num |-> 0, den |-> 1]

\* one element of the arrays handed to _compute_scenario_confidence
ComputeScenarioConfidence(mean_pred, half, cv_conf_pct) ==
    /\ scenario' = [made |-> TRUE, mean_pred |-> mean_pred, ci_low |-> mean_pred - half,
                    ci_high |-> mean_pred + half, cv_conf_pct |-> cv_conf_pct]
    /\ conf' = _compute_scenario_confidence(mean_pred, mean_pred - half, mean_pred + half,
                                            cv_conf_pct)
    /\ UNCHANGED <<overseer_vars, forecast_vars, loader_vars, market_vars,
                   advice_vars>>

(***************************************************************************)
(* Part V: market resolution in _build_feature_row                         *)
(*                                                                         *)
(* A string is a sequence of one-character strings.  str.split() cuts at   *)
(* runs of blanks and drops empty pieces, str.lower() maps every character *)
(* to its lower case, `a in b` is the substring test.                      *)
(***************************************************************************)
Chars == {"H", "h", "u", "b", " "}

lower(str) == [i \in 1..Len(str) |-> IF str[i] = "H" THEN "h" ELSE str[i]]

\* str.split() returns the empty list
SplitIsEmpty(str) == \A i \in 1..Len(str) : str[i] = " "

\* str.split()[0], for a string with a character that is not a blank
FirstWord(str) ==
    LET first == CHOOSE i \in 1..Len(str) :
                     str[i] # " " /\ \A j \in 1..(i - 1) : str[j] = " "
        last  == CHOOSE i \in first..Len(str) :
                     /\ \A j \in first..i : str[j] # " "
                     /\ (i = Len(str) \/ str[i + 1] = " ")
    IN  SubSeq(str, first, last)

\* `a in b` of two strings
IsSubstring(a, b) ==
    \E k \in 0..(Len(b) - Len(a)) : SubSeq(b, k + 1, k + Len(a)) = a

\* self.market_categories of a loaded bundle: "bu", "Hub", "u H"
market_categories == << <<"b", "u">>, <<"H", "u", "b">>, <<"u", " ", "H">> >>

InCategories(str) == \E i \in 1..Len(market_categories) : market_categories[i] = str

\* the `# Resolve market name` block: mkt_val, or the IndexError of
\* market.split()[0] on a string without a word
ResolveMarket(str) ==
    IF InCategories(str)
    THEN [kind |-> "resolved", mkt_val |-> str]
    ELSE IF SplitIsEmpty(str)
    THEN [kind |-> "raised", error |-> "IndexError"]
    ELSE LET word == lower(FirstWord(str))
             matches == {i \in 1..Len(market_categories) :
                            IsSubstring(word, lower(market_categories[i]))}
         IN  IF matches # {}
             THEN [kind |-> "resolved",
                   mkt_val |-> market_categories[CHOOSE i \in matches :
                                                    \A j \in matches : i <= j]]
             ELSE [kind |-> "resolved", mkt_val |-> market_categories[1]]

\* the market strings of the requests: every string of up to MaxLen characters
MaxLen == 3

Strings == UNION {[1..n -> Chars] : n \in 0..MaxLen}

NoMarket == [kind |-> "none"]

MarketIdle ==
    /\ market = <<>>
    /\ mkt_val = NoMarket

\* predict(market, ...) / forecast(market, ...) reach _build_feature_row
BuildFeatureRow(str) ==
    /\ market' = str
    /\ mkt_val' = ResolveMarket(str)
    /\ UNCHANGED <<overseer_vars, forecast_vars, loader_vars, scenario_vars, advice_vars>>

(***************************************************************************)
(* Part VI: RecommendationService.get_recommendation                       *)
(* (backend/services/recommendation_service.py)                            *)
(*                                                                         *)
(* Prices are whole rupees per quintal, revenues whole rupees, the hold    *)
(* costs 1/10000 rupee.  The exponent of the spoilage probability and the  *)
(* probability itself are in 1e-5.  The yield and price models and the     *)
(* weather service are inputs of a call.                                   *)
(***************************************************************************)
\* STORAGE_COSTS: cost_per_day_per_quintal in 1/10 rupee,
\* degradation_rate_per_day in 1/100 percent, spoilage_base in 1e-5
STORAGE_COSTS ==
    [Wheat     |-> [cost_per_day_per_quintal |-> 15,  degradation_rate_per_day |-> 3,
                    spoilage_base |-> 50],
     Onion     |-> [cost_per_day_per_quintal |-> 50,  degradation_rate_per_day |-> 50,
                    spoilage_base |-> 3000],
     Sugarcane |-> [cost_per_day_per_quintal |-> 100, degradation_rate_per_day |-> 200,
                    spoilage_base |-> 15000]]

\* STORAGE_COSTS.get(crop, {...}): a crop outside the table gets the default
StorageCostData(crop) ==
    IF crop \in DOMAIN STORAGE_COSTS
    THEN STORAGE_COSTS[crop]
    ELSE [cost_per_day_per_quintal |-> 20, degradation_rate_per_day |-> 5,
          spoilage_base |-> 100]

\* `spoilage_prob > 0.3` for spoilage_prob = 1 - exp(-x): x > -ln(0.7) =
\* 0.356674..., x in 1e-5 (every x of the table is a multiple of 0.0001)
SpoilageOver30(x) == x > 35667

\* 1 - math.exp(-x) in 1e-5 for an exponent x <= 0.35667 in 1e-5: the series
\* x - x^2/2! + x^3/3! - ... up to x^6, whose rest is below 2e-7
SpoilageProb(x) ==
    LET t2 == (x * x) \div 200000
        t3 == (t2 * x) \div 300000
        t4 == (t3 * x) \div 400000
        t5 == (t4 * x) \div 500000
        t6 == (t5 * x) \div 600000
    IN  x - t2 + t3 - t4 + t5 - t6

\* `if volatility < 0.1 ... elif volatility < 0.2 ... else`, volatility in 1/100
RiskLevel(volatility) ==
    IF volatility < 10 THEN "LOW"
    ELSE IF volatility < 20 THEN "MEDIUM"
    ELSE "HIGH"

\* extra_profit - total_hold_cost in 1/10000 rupee, for an exponent of the
\* spoilage probability up to -ln(0.7)
NetHoldBenefit(crop, total_quintals, current_price, peak_price, wait_days) ==
    LET storage_cost_data  == StorageCostData(crop)
        days               == Max(wait_days, 1)
        sell_peak_revenue  == total_quintals * peak_price
        extra_profit       == sell_peak_revenue - total_quintals * current_price
        total_storage_cost == storage_cost_data.cost_per_day_per_quintal
                                 * total_quintals * days * 1000
        degradation_value  == sell_peak_revenue
                                 * storage_cost_data.degradation_rate_per_day * days
        spoilage_prob      == SpoilageProb(storage_cost_data.spoilage_base * days)
        spoilage_risk_value == (sell_peak_revenue * spoilage_prob) \div 10
    IN  extra_profit * 10000
           - (total_storage_cost + degradation_value + spoilage_risk_value)

\* 7. Decision logic: HOLD unless one of the three tests says SELL NOW
DecisionLogic(crop, total_quintals, current_price, peak_price, wait_days, risk_level) ==
    IF \/ wait_days < 5
       \/ total_quintals * (peak_price - current_price) < 500
       \/ risk_level = "HIGH"
       \/ SpoilageOver30(StorageCostData(crop).spoilage_base * Max(wait_days, 1))
       \/ NetHoldBenefit(crop, total_quintals, current_price, peak_price, wait_days) < 0
    THEN "SELL NOW"
    ELSE "HOLD"

\* the explanation that goes with the decision
Explanation(crop, wait_days, risk_level, recommendation) ==
    IF recommendation = "HOLD" THEN "wait for better rate"
    ELSE IF risk_level = "HIGH" THEN "market is unstable"
    ELSE IF SpoilageOver30(StorageCostData(crop).spoilage_base * Max(wait_days, 1))
    THEN "high spoilage risk"
    ELSE "sell now"

\* the advisory text `recommendation +=` appends for the weather risk
WeatherAdvisory(weather_risk) ==
    (IF weather_risk.rain_risk = "HIGH"
     THEN " Heavy rainfall expected in coming days. Consider early harvesting or protective storage."
     ELSE IF weather_risk.rain_risk = "MODERATE"
     THEN " Moderate rainfall forecasted. Monitor crop drying and transport plans."
     ELSE "")
    \o (IF weather_risk.heat_risk = "HIGH"
        THEN " Extreme heat risk detected. Ensure adequate irrigation."
        ELSE IF weather_risk.heat_risk = "MODERATE"
        THEN " Rising temperatures expected. Review water management strategy."
        ELSE "")
    \o (IF weather_risk.humidity_risk = "HIGH"
        THEN " High humidity may increase fungal infection risk."
        ELSE "")

\* `for override in oversight.get('overrides', [])`: every override of the
\* list is written into the result, in order
RECURSIVE ApplyOverrides(_, _)
ApplyOverrides(res, overrides) ==
    IF overrides = <<>> THEN res
    ELSE LET override == Head(overrides)
         IN  ApplyOverrides(
                 IF override.field = "recommendation"
                 THEN [res EXCEPT !.recommendation = override.new_value,
                                  !.explanation = override.reason,
                                  !.overseer_overridden = TRUE]
                 ELSE IF override.field = "wait_days"
                 THEN [res EXCEPT !.wait_days = override.new_value,
                                  !.original_wait_days = override.old_value]
                 ELSE res,
                 Tail(overrides))

\* the body of get_recommendation from the decision logic to the call of the
\* Overseer: the dict `result` as Overseer.evaluate receives it
BuildResult(crop, mandi, total_quintals, price_result, weather_risk) ==
    LET risk_level     == RiskLevel(price_result.volatility)
        decided        == DecisionLogic(crop, total_quintals, price_result.current_price,
                                        price_result.peak_price, price_result.wait_days,
                                        risk_level)
        recommendation == decided \o WeatherAdvisory(weather_risk)
    IN  [recommendation            |-> recommendation,
         current_price_per_quintal |-> price_result.current_price,
         peak_price_per_quintal    |-> price_result.peak_price,
         wait_days                 |-> price_result.wait_days,
         original_wait_days        |-> None,
         risk_level                |-> risk_level,
         explanation               |-> Explanation(crop, price_result.wait_days, risk_level, decided),
         storage_advice            |-> recommendation = "HOLD",
         crop                      |-> crop,
         mandi                     |-> mandi,
         weather_risk              |-> weather_risk,
         overseer_overridden       |-> FALSE,
         overseer                  |-> None]

\* YieldService.predict_yield: None, or total_expected_production * 10 quintals
Yields ==
    {[present |-> FALSE]} \cup {[present |-> TRUE, total_quintals |-> q] : q \in {1, 10}}

\* PriceService.forecast_price of the fallback model: the first forecast
\* value, the peak, the days until the peak, the volatility, the series and
\* the features FeatureEngine computes for the crop (None when it raises)
PriceResults ==
    {[present |-> TRUE, current_price |-> x.current, peak_price |-> x.peak, wait_days |-> w,
      volatility |-> IF x.forecast = VolatileForecast THEN 33 ELSE 2,
      forecast |-> x.forecast, features |-> x.features] :
        x \in {y \in Contexts : y.forecast # <<>> /\ y.current > 0 /\ y.peak > y.current},
        w \in {2, 5, 8, 12, 15}}

RiskValues == {"LOW", "MODERATE", "HIGH"}

\* WeatherService.calculate_weather_risk(district)
WeatherRisks ==
    {[rain_risk |-> r, heat_risk |-> h, humidity_risk |-> u] :
        r \in RiskValues, h \in RiskValues, u \in RiskValues}

NoAdvice == [made |-> FALSE]

AdviceIdle ==
    /\ data = NoAdvice
    /\ result = NoAdvice

\* One call of get_recommendation.  `raised` says that an exception leaves the
\* try block of the Overseer before evaluate has run (the imports of
\* services.overseer_service and services.groq_explainer are its first
\* statements); the call then returns the advice with verdict UNAVAILABLE.
GetRecommendation(crop, yield_result, price_result, weather_risk, unavailable, raised) ==
    /\ IF ~yield_result.present \/ ~price_result.present
       THEN /\ data' = [made |-> TRUE, crop |-> crop, returned |-> FALSE, evaluated |-> FALSE]
            /\ result' = None
            /\ UNCHANGED <<overseer_log, log_args>>
       ELSE LET total_quintals == yield_result.total_quintals
                res == BuildResult(crop, "Pune Mandi", total_quintals, price_result, weather_risk)
                out == evaluate(res, price_result.forecast, price_result.features, unavailable)
            IN  /\ data' = [made |-> TRUE, crop |-> crop, returned |-> TRUE,
                            decided |-> DecisionLogic(crop, total_quintals,
                                                      price_result.current_price,
                                                      price_result.peak_price,
                                                      price_result.wait_days,
                                                      res.risk_level),
                            evaluated |-> ~raised,
                            total_quintals |-> total_quintals,
                            price_result |-> price_result,
                            passed |-> res]
                /\ IF raised
                   THEN /\ result' = [res EXCEPT !.overseer = [verdict |-> "UNAVAILABLE"]]
                        /\ UNCHANGED <<overseer_log, log_args>>
                   ELSE /\ result' = [ApplyOverrides(res, out.oversight.overrides)
                                         EXCEPT !.overseer = out.oversight]
                        /\ log_args' = out.log_args
                        /\ overseer_log' = _log_to_db(out.log_args, "audit" \in unavailable)
    /\ UNCHANGED <<today, price_history, evaluation_metrics, pc, calls, call, oversight, prev>>
    /\ UNCHANGED <<forecast_vars, loader_vars, scenario_vars, market_vars>>

(***************************************************************************)
(* Specifications                                                          *)
(***************************************************************************)
OverseerIdle ==
    /\ overseer_log = <<>>
    /\ pc = "idle"
    /\ calls = 0
    /\ call = NoCall
    /\ oversight = NoCall
    /\ log_args = NoCall
    /\ prev = NoCall

ForecastIdle ==
    /\ fpc = "idle"
    /\ fcall = NoForecast
    /\ today_result = NoForecast
    /\ rolling_prices = <<>>
    /\ forecast_list = <<>>
    /\ best_day = NoForecast

\* Spec: one call of Overseer.evaluate on a store with history
Init ==
    /\ today = Day0
    /\ \E s \in Stores :
          /\ price_history = s.price_history
          /\ evaluation_metrics = s.evaluation_metrics
    /\ OverseerIdle
    /\ ForecastIdle
    /\ LoaderIdle
    /\ ScenarioIdle
    /\ MarketIdle
    /\ AdviceIdle

Next == \E r \in Recommendations, u \in Outages : Evaluate(r, u)

Spec == Init /\ [][Next]_vars

\* SpecServer: evaluate called again and again on one store while days pass
MaxCalls == 2

MaxElapsed == 1

ServerRecommendations ==
    {r \in Recommendations :
        /\ r.crop \in {"Onion", "Wheat"}
        /\ r.wait_days \in {10, 15}
        /\ r.recommendation = "HOLD"
        /\ r.risk_level = "LOW"
        /\ r.current_price_per_quintal = 2500 /\ r.peak_price_per_quintal = 2600
        /\ r.features.present}

ServerOutages == {{}, {"audit"}, {"drift"}}

\* the caller asks for the next evaluation
Await ==
    /\ pc = "returned"
    /\ calls < MaxCalls
    /\ pc' = "idle"
    /\ UNCHANGED <<today, price_history, evaluation_metrics, overseer_log,
                   calls, call, oversight, log_args, prev>>
    /\ UNCHANGED forecast_vars
    /\ UNCHANGED loader_vars
    /\ UNCHANGED scenario_vars
    /\ UNCHANGED market_vars
    /\ UNCHANGED advice_vars

\* midnight: datetime.date.today() moves on
AdvanceDay ==
    /\ today < Day0 + MaxElapsed
    /\ today' = today + 1
    /\ UNCHANGED <<price_history, evaluation_metrics, overseer_log,
                   pc, calls, call, oversight, log_args, prev>>
    /\ UNCHANGED forecast_vars
    /\ UNCHANGED loader_vars
    /\ UNCHANGED scenario_vars
    /\ UNCHANGED market_vars
    /\ UNCHANGED advice_vars

InitServer ==
    /\ today = Day0
    /\ price_history \in {HistoryRows(5, 3, BasePrice), HistoryRows(5, 3, 2000)}
    /\ evaluation_metrics \in {{}, MetricRows(20)}
    /\ OverseerIdle
    /\ ForecastIdle
    /\ LoaderIdle
    /\ ScenarioIdle
    /\ MarketIdle
    /\ AdviceIdle

NextServer ==
    \/ \E r \in ServerRecommendations, u \in ServerOutages : Evaluate(r, u)
    \/ Await
    \/ AdvanceDay

SpecServer == InitServer /\ [][NextServer]_vars

\* SpecForecast: one call of predict() or forecast() of a commodity predictor
InitForecast ==
    /\ today = Day0
    /\ price_history = {}
    /\ evaluation_metrics = {}
    /\ OverseerIdle
    /\ ForecastIdle
    /\ LoaderIdle
    /\ ScenarioIdle
    /\ MarketIdle
    /\ AdviceIdle

NextForecast ==
    \/ \E c \in Commodities, corr \in BiasCorrections :
          \E o \in DayOutputs(c) : Predict(c, corr, o)
    \/ \E c \in Commodities, corr \in BiasCorrections, n \in 0..MaxDays :
          \E o \in DayOutputs(c), outputs \in [1..n -> DayOutputs(c)] :
             Forecast(c, corr, o, outputs, GetForecastStorageDays(c))

SpecForecast == InitForecast /\ [][NextForecast]_vars

\* SpecStorage: forecast() called with a storage period on slowly rising
\* prices, in steps of one rupee
RisingSpan == 24

RisingFrom == [groundnut |-> 5780, paddy |-> 1990, coconut |-> 1110, cabbage |-> 152]

RisingOutputs(c) ==
    {[raw |-> x * 100, boost |-> 0] : x \in RisingFrom[c]..(RisingFrom[c] + RisingSpan)}

StorageDays == {0, 1, 2, 8}

InitStorage ==
    /\ today = Day0
    /\ price_history = {}
    /\ evaluation_metrics = {}
    /\ OverseerIdle
    /\ ForecastIdle
    /\ LoaderIdle
    /\ ScenarioIdle
    /\ MarketIdle
    /\ AdviceIdle

NextStorage ==
    \E c \in Commodities, d \in StorageDays :
        \E o1 \in RisingOutputs(c), o2 \in RisingOutputs(c) :
            Forecast(c, 0, [raw |-> (RisingFrom[c] - 5) * 100, boost |-> 0], <<o1, o2>>, d)

SpecStorage == InitStorage /\ [][NextStorage]_vars

\* SpecLoader: request threads of one process call get_forecast concurrently
MissingBundles == {{}, {"groundnut"}, {"paddy", "cabbage"}}

\* the commodities the requests ask for: two of KarnatakaForecaster's three
\* (coconut's slot is handled by the same lines as groundnut's) and
\* MaharashtraForecaster's one
Requested == {"groundnut", "paddy", "cabbage"}

InitLoader ==
    /\ today = Day0
    /\ price_history = {}
    /\ evaluation_metrics = {}
    /\ OverseerIdle
    /\ ForecastIdle
    /\ slot = [c \in Commodities |-> 0]
    /\ heap = [c \in Commodities |-> <<>>]
    /\ missing \in MissingBundles
    /\ threads = [t \in Threads |-> IdleThread]
    /\ ScenarioIdle
    /\ MarketIdle
    /\ AdviceIdle

NextLoader ==
    \E t \in Threads :
        \/ \E c \in Requested : \E caller \in CallersOf(c) : Request(t, c, caller)
        \/ EnsureLoaded(t)
        \/ Construct(t)
        \/ Store(t)
        \/ Lookup(t)
        \/ StartForecast(t)
        \/ ForecastDay(t)
        \/ ReturnForecast(t)

SpecLoader == InitLoader /\ [][NextLoader]_vars

\* SpecScenario: _compute_scenario_confidence on the scenarios of a batch
InitScenario ==
    /\ today = Day0
    /\ price_history = {}
    /\ evaluation_metrics = {}
    /\ OverseerIdle
    /\ ForecastIdle
    /\ LoaderIdle
    /\ ScenarioIdle
    /\ MarketIdle
    /\ AdviceIdle

NextScenario ==
    \E mean_pred \in MeanPreds, half \in HalfWidths, cv_conf_pct \in CvConfidences :
        ComputeScenarioConfidence(mean_pred, half, cv_conf_pct)

SpecScenario == InitScenario /\ [][NextScenario]_vars

\* SpecMarket: _build_feature_row on the market strings of the requests
InitMarket ==
    /\ today = Day0
    /\ price_history = {}
    /\ evaluation_metrics = {}
    /\ OverseerIdle
    /\ ForecastIdle
    /\ LoaderIdle
    /\ ScenarioIdle
    /\ MarketIdle
    /\ AdviceIdle

NextMarket == \E str \in Strings : BuildFeatureRow(str)

SpecMarket == InitMarket /\ [][NextMarket]_vars

\* the stores of the advice calls: no history, a falling and a rising market
AdviceStores ==
    {s \in Stores :
        /\ s.evaluation_metrics = MetricRows(10)
        /\ s.price_history \in {HistoryRows(0, 0, BasePrice), HistoryRows(5, 3, 2000),
                                HistoryRows(5, 3, 3000)}}

InitAdvice ==
    /\ today = Day0
    /\ \E s \in AdviceStores :
          /\ price_history = s.price_history
          /\ evaluation_metrics = s.evaluation_metrics
    /\ OverseerIdle
    /\ ForecastIdle
    /\ LoaderIdle
    /\ ScenarioIdle
    /\ MarketIdle
    /\ AdviceIdle

\* one request is served
NextAdvice ==
    /\ data = NoAdvice
    /\ \E crop \in Crops, yield_result \in Yields,
          price_result \in PriceResults \cup {[present |-> FALSE]},
          weather_risk \in WeatherRisks,
          unavailable \in {{}, {"crossval", "drift", "accuracy", "audit"}},
          raised \in BOOLEAN :
           GetRecommendation(crop, yield_result, price_result, weather_risk, unavailable, raised)

SpecAdvice == InitAdvice /\ [][NextAdvice]_vars

(***************************************************************************)
(* Properties                                                              *)
(***************************************************************************)
Returned == pc = "returned"

HasOverride(field, new_value) ==
    \E i \in 1..Len(oversight.overrides) :
        /\ oversight.overrides[i].field = field
        /\ oversight.overrides[i].new_value = new_value

\* C1: every evaluate call returns an adjusted_confidence between 0.40 and
\* 0.95, whatever the penalties add up to, and hands a confidence_after in
\* the same range to the audit log.
C1_ConfidenceBounds ==
    Returned =>
        /\ oversight.adjusted_confidence >= 400
        /\ oversight.adjusted_confidence <= 950
        /\ log_args.confidence_after >= 400
        /\ log_args.confidence_after <= 950

\* a call whose penalties take the running score below the floor
C1_Witness ==
    /\ Returned
    /\ call.scores[7] < 400
    /\ oversight.adjusted_confidence = 400
    /\ log_args.confidence_after = 400

\* C2: a HOLD on a perishable crop for longer than its max safe days is
\* always OVERRIDDEN with the recommendation set to SELL NOW, whatever the
\* other five checks find.
C2_PerishableHardStop ==
    (/\ Returned
     /\ call.recommendation_data.crop \in DOMAIN PERISHABLE_CROPS
     /\ call.recommendation_data.recommendation = "HOLD"
     /\ call.recommendation_data.wait_days
           > PERISHABLE_CROPS[call.recommendation_data.crop].max_safe_days)
    => /\ oversight.verdict = "OVERRIDDEN"
       /\ HasOverride("recommendation", "SELL NOW")

\* such a hold on sugarcane while the other checks flag anomalies, drift and
\* a failed accuracy query
C2_Witness ==
    /\ Returned
    /\ call.recommendation_data.crop = "Sugarcane"
    /\ call.recommendation_data.recommendation = "HOLD"
    /\ call.recommendation_data.wait_days = 5
    /\ oversight.anomalies_detected >= 2
    /\ oversight.drift_status.drift_detected
    /\ oversight.verdict = "OVERRIDDEN"
    /\ HasOverride("recommendation", "SELL NOW")

\* a finished forecast() call and the prices it reports, today's first
Forecasted == fpc = "done" /\ fcall.op = "forecast"

ReportedPrice(i) == IF i = 0 THEN today_result.predicted_price ELSE forecast_list[i].price

MaxDailyPct == PREDICTORS[fcall.commodity].max_daily_pct

\* the day-i price of the loop before the clamp
UnclampedPrice(i) ==
    FestivalBoost(FloorPrice(PREDICTORS[fcall.commodity], fcall.outputs[i].raw, fcall.corr),
                  fcall.outputs[i].boost)

\* C3 as stated: every reported Forecast Point price differs from the
\* reported price before it (today's for the first point) by at most
\* max_daily_pct of that price.
C3_ReportedDailyDelta ==
    Forecasted =>
        \A i \in 1..Len(forecast_list) :
            Abs(ReportedPrice(i) - ReportedPrice(i - 1)) * 100
                <= ReportedPrice(i - 1) * MaxDailyPct

\* C3: the daily clamp bounds the unrounded trajectory of the loop; the
\* reported prices are that trajectory rounded to whole rupees, so they
\* differ by at most max_daily_pct of the previous reported price plus the
\* rounding of the two prices (1 + max_daily_pct / 200 rupee).
C3_DailyDeltaUpToRounding ==
    Forecasted =>
        \A i \in 1..Len(forecast_list) :
            /\ Abs(rolling_prices[i + 1] - rolling_prices[i]) * 100
                   <= rolling_prices[i] * MaxDailyPct
            /\ Abs(ReportedPrice(i) - ReportedPrice(i - 1)) * 200
                   <= ReportedPrice(i - 1) * 2 * MaxDailyPct + 200 + MaxDailyPct

\* a forecast whose raw output jumped, was clamped, and whose rounded step
\* is larger than max_daily_pct of the reported price before it
C3_Witness ==
    /\ Forecasted
    /\ \E i \in 1..Len(forecast_list) :
          /\ UnclampedPrice(i) # rolling_prices[i + 1]
          /\ Abs(ReportedPrice(i) - ReportedPrice(i - 1)) * 100
                 > ReportedPrice(i - 1) * MaxDailyPct

C5_VerdictPriority ==
    Returned =>
        oversight.verdict =
            IF Len(oversight.overrides) > 0 THEN "OVERRIDDEN"
            ELSE IF oversight.anomalies_detected >= 2 \/ call.scores[7] < 500 THEN "FLAGGED"
            ELSE IF Len(oversight.warnings) > 0 THEN "APPROVED_WITH_WARNINGS"
            ELSE "APPROVED"

\* a recommendation flagged for its score alone
C5_Witness ==
    /\ Returned
    /\ oversight.verdict = "FLAGGED"
    /\ oversight.anomalies_detected < 2
    /\ oversight.overrides = <<>>
    /\ call.scores[7] < 500

\* C6: every evaluate call adds exactly one row to the audit log, and the
\* row holds the original and the final decision, the confidence before and
\* after and the full warning list of the evaluation.
C6_ExactlyOneAuditEntry ==
    /\ Len(overseer_log) = calls
    /\ Returned =>
          /\ overseer_log # <<>>
          /\ LET entry == overseer_log[Len(overseer_log)]
             IN  /\ entry.original_decision = call.recommendation_data.recommendation
                 /\ entry.final_decision = log_args.final_decision
                 /\ entry.confidence_before = 950
                 /\ entry.confidence_after = oversight.adjusted_confidence
                 /\ entry.warnings_json = oversight.warnings

\* C7: every override of every Oversight Result has a non-empty reason.
C7_OverrideReasons ==
    Returned =>
        \A i \in 1..Len(oversight.overrides) : oversight.overrides[i].reason # ""

\* a result that carries the perishable override and the drift override
C7_Witness ==
    /\ Returned
    /\ Len(oversight.overrides) = 2
    /\ oversight.overrides[2].field = "wait_days"
    /\ oversight.overrides[2].reason # ""

\* the rows and the query failures two evaluate calls saw are the same
SameRecords(a, b) ==
    LET x == a.recommendation_data
        y == b.recommendation_data
    IN  /\ a.unavailable \ {"audit"} = b.unavailable \ {"audit"}
        /\ CrossvalRowsAt(x.crop, a.date) = CrossvalRowsAt(y.crop, b.date)
        /\ RecentRowsAt(x.crop, x.mandi, a.date) = RecentRowsAt(y.crop, y.mandi, b.date)
        /\ BaselineRowsAt(x.crop, x.mandi, a.date) = BaselineRowsAt(y.crop, y.mandi, b.date)
        /\ AccuracyRowsAt(x.crop, a.date) = AccuracyRowsAt(y.crop, b.date)

DownwardShiftOver15 ==
    LET r        == call.recommendation_data
        recent   == RecentRowsAt(r.crop, r.mandi, call.date)
        baseline == BaselineRowsAt(r.crop, r.mandi, call.date)
    IN  /\ "drift" \notin call.unavailable
        /\ Cardinality(recent) >= 3
        /\ Cardinality(baseline) >= 5
        /\ ShiftExceeds(recent, baseline, 15)
        /\ MeanGap(recent, baseline) < 0

\* C9: when the mean price of the most recent 7 days is more than 15% below
\* the baseline mean and the recommendation is HOLD, evaluate reports
\* downward drift, overrides the recommendation to SELL NOW, returns
\* OVERRIDDEN and records SELL NOW as the final decision.
C9_DownwardDriftForcesSell ==
    (/\ Returned
     /\ call.recommendation_data.recommendation = "HOLD"
     /\ DownwardShiftOver15)
    => /\ oversight.drift_status.drift_detected
       /\ oversight.drift_status.direction = "downward"
       /\ HasOverride("recommendation", "SELL NOW")
       /\ oversight.verdict = "OVERRIDDEN"
       /\ log_args.final_decision = "SELL NOW"

\* C10: when drift is detected with a shift above 15% and the recommendation
\* is HOLD with wait_days > 14, the overrides contain wait_days -> 14, for an
\* upward and for a downward shift.
C10_DriftCapsLongHold ==
    (/\ Returned
     /\ oversight.drift_status.drift_detected
     /\ oversight.drift_status.shift_pct > 150
     /\ call.recommendation_data.recommendation = "HOLD"
     /\ call.recommendation_data.wait_days > 14)
    => HasOverride("wait_days", 14)

CrossvalDegraded ==
    \/ "crossval" \in call.unavailable
    \/ Cardinality(CrossvalRowsAt(call.recommendation_data.crop, call.date)) < 7

DriftDegraded ==
    \/ "drift" \in call.unavailable
    \/ Cardinality(RecentRowsAt(call.recommendation_data.crop,
                                call.recommendation_data.mandi, call.date)) < 3
    \/ Cardinality(BaselineRowsAt(call.recommendation_data.crop,
                                  call.recommendation_data.mandi, call.date)) < 5

AccuracyDegraded ==
    \/ "accuracy" \in call.unavailable
    \/ AccuracyRowsAt(call.recommendation_data.crop, call.date) = {}

\* C12: a check of evaluate that cannot obtain its data (cross-validation,
\* drift, historical accuracy) adds a warning to the result, and evaluate
\* never returns APPROVED with an empty warnings list while one of its data
\* sources was unavailable.
C12_DegradedChecksWarn ==
    Returned =>
        /\ CrossvalDegraded => Len(call.trail[3]) > Len(call.trail[2])
        /\ DriftDegraded => Len(call.trail[6]) > Len(call.trail[5])
        /\ AccuracyDegraded => Len(call.trail[7]) > Len(call.trail[6])
        /\ (CrossvalDegraded \/ DriftDegraded \/ AccuracyDegraded)
              => ~(oversight.verdict = "APPROVED" /\ oversight.warnings = <<>>)

\* C13: under any interleaving of concurrent requests a commodity's bundle
\* is loaded (a predictor constructed) at most once, and every request uses
\* that one predictor.
C13_LoadedAtMostOnce ==
    /\ \A c \in Commodities : Len(heap[c]) <= 1
    /\ \A t \in Threads : threads[t].predictor \in {0, 1}

\* C14: forecast() leaves the predictor's bundle as it was loaded, and under
\* any interleaving of concurrent forecast calls each call returns what
\* forecast() returns when it runs alone on that bundle.
C14_ForecastLeavesBundle ==
    /\ \A c \in Commodities : \A i \in 1..Len(heap[c]) : heap[c][i] = LoadedBundle(c)
    /\ \A t \in Threads :
          threads[t].result.kind = "forecast" =>
              LET alone == ForecastAlone(threads[t].crop, LoadedBundle(threads[t].crop))
              IN  /\ threads[t].result.today = alone.today
                  /\ threads[t].result.forecast = alone.forecast

\* two calls inside the loop of forecast() on the same predictor, at
\* different days, after an earlier call on it has returned
C14_Witness ==
    \E t, u \in Threads :
        /\ t # u
        /\ threads[t].pc = "loop" /\ threads[u].pc = "loop"
        /\ threads[t].crop = threads[u].crop
        /\ threads[t].predictor = threads[u].predictor
        /\ threads[t].day = 2 /\ threads[u].day = 1
        /\ threads[t].served = 1
        /\ threads[t].rolling_prices[2] # threads[t].rolling_prices[1]

\* the forecast days within the storage bound and their exact net prices
StorableDays ==
    IF fcall.storage_days > 0 THEN 1..Min(fcall.storage_days, Len(forecast_list)) ELSE {}

NetOfDay(i) == NetPrice(fcall.commodity, forecast_list[i].price, i)

\* C15: best_day is the forecast day with the highest net price within the
\* storage_days bound, and it is Today with gain 0 exactly when no day within
\* the bound has a net price above today's price.
C15_BestDayIsArgmax ==
    Forecasted =>
        IF \E i \in StorableDays : NetOfDay(i) > today_result.predicted_price * 10000
        THEN /\ best_day.day \in StorableDays
             /\ \A j \in StorableDays : NetOfDay(best_day.day) >= NetOfDay(j)
        ELSE /\ best_day.day = 0
             /\ best_day.gain_pct = 0

\* the last call's request: none of the four anomaly conditions holds
NoAnomalyCondition ==
    LET r == call.recommendation_data
        current_price == r.current_price_per_quintal
        jump == r.peak_price_per_quintal - current_price
    IN  /\ current_price > 0 => /\ jump * 100 <= 20 * current_price
                                /\ jump * 100 >= (-15) * current_price
        /\ r.wait_days <= 60
        /\ ~HighForecastVariance(r.forecast)

\* at least 7 rows of the crop in the last 30 days, and the forecast peak
\* within 25% of the peak their trend projects
AmpleHistoryWithin25 ==
    LET r == call.recommendation_data
        history == CrossvalRowsAt(r.crop, call.date)
    IN  /\ "crossval" \notin call.unavailable
        /\ Cardinality(history) >= 7
        /\ ~BaselineDivergence(FirstByDate(history).price, LastByDate(history).price,
                               r.current_price_per_quintal, r.peak_price_per_quintal,
                               r.wait_days)

CompleteContext ==
    LET features == call.recommendation_data.features
    IN  /\ features.present
        /\ features.data_points >= 3
        /\ features.seasonal # "default_pattern"
        /\ features.rainfall # "no_data"

\* tracked forecast errors of the crop exist and average at most 15%
AccurateTracking ==
    LET metrics == AccuracyRowsAt(call.recommendation_data.crop, call.date)
    IN  /\ "accuracy" \notin call.unavailable
        /\ metrics # {}
        /\ SumError(metrics) <= 15 * Cardinality(metrics)

Scenario1 ==
    /\ Returned
    /\ call.recommendation_data.crop \notin DOMAIN PERISHABLE_CROPS
    /\ call.recommendation_data.recommendation = "HOLD"
    /\ call.recommendation_data.wait_days = 10
    /\ NoAnomalyCondition
    /\ AmpleHistoryWithin25
    /\ CompleteContext
    /\ ~oversight.drift_status.drift_detected
    /\ AccurateTracking

\* C16: a HOLD for 10 days on a non-perishable crop with no anomaly
\* condition, at least 7 history points diverging at most 25% from the
\* forecast, a complete feature context, no drift detected and tracked
\* errors averaging at most 15% is APPROVED with confidence at least 0.85.
C16_CleanHoldApproved ==
    Scenario1 =>
        /\ oversight.verdict = "APPROVED"
        /\ oversight.adjusted_confidence >= 850

C16_Witness ==
    /\ Scenario1
    /\ oversight.verdict = "APPROVED"
    /\ oversight.adjusted_confidence = CONFIDENCE_CEILING
    /\ oversight.warnings = <<>>

HasWarning(warnings, code) == \E i \in 1..Len(warnings) : warnings[i].code = code

\* the last call asked for 90 days on a non-perishable crop
LongHoldCall ==
    /\ Returned
    /\ call.recommendation_data.crop \notin DOMAIN PERISHABLE_CROPS
    /\ call.recommendation_data.wait_days = 90

\* what evaluate returns for the last call's request with wait_days = 10, on
\* the same tables, the same day and with the same operations failing
SameCallAt10 ==
    evaluate([call.recommendation_data EXCEPT !.wait_days = 10],
             call.recommendation_data.forecast, call.recommendation_data.features,
             call.unavailable).oversight

\* C17 as stated: of two calls that differ only in wait_days (10 and 90) on a
\* non-perishable crop, the 90-day result has an EXCESSIVE_HOLD_PERIOD
\* warning and a confidence at least 0.08 below the 10-day result.
C17_LongHoldLowersConfidence ==
    LongHoldCall =>
        /\ HasWarning(oversight.warnings, "EXCESSIVE_HOLD_PERIOD")
        /\ oversight.adjusted_confidence + 80 <= SameCallAt10.adjusted_confidence

\* C17: the 90-day result always has the EXCESSIVE_HOLD_PERIOD warning; its
\* confidence is at least 0.08 below the 10-day result when the 10-day
\* result has no FORECAST_BASELINE_DIVERGENCE warning and the 90-day
\* confidence is above the floor 0.40, in particular when the 10-day result
\* is at the ceiling 0.95 (then the 90-day result is at most 0.87).
C17_LongHoldLowersAboveFloor ==
    LongHoldCall =>
        /\ HasWarning(oversight.warnings, "EXCESSIVE_HOLD_PERIOD")
        /\ (/\ ~HasWarning(SameCallAt10.warnings, "FORECAST_BASELINE_DIVERGENCE")
            /\ oversight.adjusted_confidence > CONFIDENCE_FLOOR)
               => oversight.adjusted_confidence + 80 <= SameCallAt10.adjusted_confidence
        /\ SameCallAt10.adjusted_confidence = CONFIDENCE_CEILING
               => oversight.adjusted_confidence <= CONFIDENCE_CEILING - 80

\* the 90-day call of a request whose 10-day call is APPROVED at 0.95
C17_Witness ==
    /\ LongHoldCall
    /\ SameCallAt10.verdict = "APPROVED"
    /\ SameCallAt10.adjusted_confidence = CONFIDENCE_CEILING
    /\ HasWarning(oversight.warnings, "EXCESSIVE_HOLD_PERIOD")
    /\ oversight.adjusted_confidence = CONFIDENCE_CEILING - 80

IsPrefix(a, b) == Len(a) <= Len(b) /\ SubSeq(b, 1, Len(a)) = a

\* C18: during one evaluate call the running score starts at 0.95 and after
\* each of the six checks is at most its value before the check, and the
\* warnings list after each check is the list before it with zero or more
\* warnings appended; the result carries the list as the last check left it.
C18_ScoreFallsWarningsGrow ==
    Returned =>
        /\ call.scores[1] = CONFIDENCE_CEILING
        /\ call.trail[1] = <<>>
        /\ \A k \in 1..6 :
              /\ call.scores[k + 1] <= call.scores[k]
              /\ IsPrefix(call.trail[k], call.trail[k + 1])
        /\ oversight.warnings = call.trail[7]

\* a call in which four checks lower the score and append a warning, and the
\* perishable check leaves both as they are
C18_Witness ==
    /\ Returned
    /\ Cardinality({k \in 1..6 : /\ call.scores[k + 1] < call.scores[k]
                                 /\ Len(call.trail[k + 1]) > Len(call.trail[k])}) >= 4
    /\ call.scores[4] = call.scores[3]
    /\ call.trail[4] = call.trail[3]
    /\ call.trail[3] # <<>>

\* C19: when the bundle of a commodity cannot be loaded only that commodity
\* is affected: no predictor is ever cached or used for it, requests for the
\* other commodities load their bundle and return the forecast of that
\* bundle, and a request for the commodity ends with no forecast.
C19_LoadFailureIsolated ==
    /\ \A c \in missing : slot[c] = 0 /\ heap[c] = <<>>
    /\ \A t \in Threads :
          /\ threads[t].crop \in missing => threads[t].predictor = 0
          /\ (threads[t].pc = "done" /\ threads[t].crop \notin missing) =>
                /\ threads[t].result.kind = "forecast"
                /\ threads[t].result.forecast
                      = ForecastAlone(threads[t].crop, LoadedBundle(threads[t].crop)).forecast
          /\ (threads[t].pc = "done" /\ threads[t].crop \in missing) =>
                threads[t].result.kind \in {"absent", "raised"}

\* the latest scenario: interval width and |mean_pred| (1 when mean_pred is
\* 0), and cv_conf_pct limited to 0..100
ScenarioWidth == scenario.ci_high - scenario.ci_low

ScenarioScale == IF scenario.mean_pred # 0 THEN Abs(scenario.mean_pred) ELSE 1

ScenarioBase == Max(0, Min(100, scenario.cv_conf_pct))

\* conf = clamp(x, 5, 98) for x = t / (20 * ScenarioScale)
ConfIsClamped(t) ==
    /\ conf.den = 20 * ScenarioScale
    /\ conf.num = Max(100 * ScenarioScale, Min(1960 * ScenarioScale, t))

ConfWithin5And98 == 5 * conf.den <= conf.num /\ conf.num <= 98 * conf.den

\* C20 as stated: the confidence is clamp(cv_confidence * f, 5, 98) with f
\* the linear map through (0.05, 1.1) and (0.5, 0.2), f(w) = 1.2 - 2w, of the
\* relative width w limited to [0.05, 0.5]; it lies in [5, 98].
C20_LinearFactor ==
    scenario.made =>
        LET w20 == Max(ScenarioScale, Min(10 * ScenarioScale, 20 * ScenarioWidth))
        IN  /\ ConfIsClamped(ScenarioBase * (24 * ScenarioScale - 2 * w20))
            /\ ConfWithin5And98

\* C20: the confidence is clamp(base * f, 5, 98) where base is cv_conf_pct
\* limited to [0, 100] and f is 1.1 for a relative width up to 0.05,
\* 1.2 - 2w for a width w from 0.05 to 0.45 and 0.3 from 0.45 on; it lies in
\* [5, 98].
C20_FactorFlooredAt03 ==
    scenario.made =>
        /\ 20 * ScenarioWidth <= ScenarioScale
              => ConfIsClamped(ScenarioBase * 22 * ScenarioScale)
        /\ (20 * ScenarioWidth >= ScenarioScale /\ 20 * ScenarioWidth <= 9 * ScenarioScale)
              => ConfIsClamped(ScenarioBase * (24 * ScenarioScale - 40 * ScenarioWidth))
        /\ 20 * ScenarioWidth >= 9 * ScenarioScale
              => ConfIsClamped(ScenarioBase * 6 * ScenarioScale)
        /\ ConfWithin5And98

\* a scenario of relative width 0.5 at cv confidence 80: the confidence is
\* 80 * 0.3 = 24
C20_Witness ==
    /\ scenario.made
    /\ scenario.mean_pred # 0
    /\ ScenarioWidth * 2 = ScenarioScale
    /\ scenario.cv_conf_pct = 80
    /\ conf.num = 24 * conf.den

\* C21: for every market string handed to predict() or forecast() the
\* market resolution raises nothing and yields the exact vocabulary entry
\* if there is one, otherwise the first entry that contains the market's
\* first word (case-insensitive), otherwise the first known market.
C21_MarketAlwaysResolves ==
    mkt_val.kind # "none" =>
        /\ mkt_val.kind = "resolved"
        /\ InCategories(mkt_val.mkt_val)
        /\ InCategories(market) => mkt_val.mkt_val = market
        /\ ~InCategories(market) =>
              LET word == lower(FirstWord(market))
                  matches == {i \in 1..Len(market_categories) :
                                 IsSubstring(word, lower(market_categories[i]))}
              IN  /\ matches # {} =>
                        \E i \in matches :
                            /\ mkt_val.mkt_val = market_categories[i]
                            /\ \A j \in matches : i <= j
                  /\ matches = {} => mkt_val.mkt_val = market_categories[1]

\* the rows of the last call's crop and mandi dated within the last 7 days
\* and within the 23 days before them
Recent7 ==
    {r \in price_history : /\ r.crop = call.recommendation_data.crop
                           /\ r.mandi = call.recommendation_data.mandi
                           /\ r.date >= call.date - 7}

Prior23 ==
    {r \in price_history : /\ r.crop = call.recommendation_data.crop
                           /\ r.mandi = call.recommendation_data.mandi
                           /\ r.date >= call.date - 30 /\ r.date < call.date - 7}

\* mean(Recent7) - mean(Prior23), times the two row counts
MeanDifference ==
    SumPrice(Recent7) * Cardinality(Prior23) - SumPrice(Prior23) * Cardinality(Recent7)

\* |mean(Recent7) - mean(Prior23)| / mean(Prior23) > 10%
RelativeShiftOver10 ==
    /\ Recent7 # {} /\ Prior23 # {}
    /\ SumPrice(Prior23) > 0
    /\ Abs(MeanDifference) * 100 > 10 * SumPrice(Prior23) * Cardinality(Recent7)

\* C22 as stated: drift_detected exactly when the mean price of the last 7
\* days differs from the mean of the prior 23 days by more than 10% of the
\* latter; direction 'downward' when the recent mean is lower, 'upward' when
\* it is higher.
C22_DriftIffShiftOver10 ==
    Returned =>
        /\ oversight.drift_status.drift_detected <=> RelativeShiftOver10
        /\ (Recent7 # {} /\ Prior23 # {} /\ MeanDifference < 0)
              => oversight.drift_status.direction = "downward"
        /\ (Recent7 # {} /\ Prior23 # {} /\ MeanDifference > 0)
              => oversight.drift_status.direction = "upward"

\* the drift query of the last call succeeded and found at least 3 recent
\* and 5 baseline rows
DriftMeasurable ==
    /\ "drift" \notin call.unavailable
    /\ Cardinality(Recent7) >= 3
    /\ Cardinality(Prior23) >= 5

\* C22: drift_detected exactly when the drift query succeeds, finds at least
\* 3 recent and 5 baseline rows and their means differ by more than 10% of
\* the baseline mean; then direction is 'downward' for a lower and 'upward'
\* for a higher recent mean.
C22_DriftIffMeasuredShiftOver10 ==
    Returned =>
        /\ oversight.drift_status.drift_detected <=> (DriftMeasurable /\ RelativeShiftOver10)
        /\ (DriftMeasurable /\ MeanDifference < 0)
              => oversight.drift_status.direction = "downward"
        /\ (DriftMeasurable /\ MeanDifference > 0)
              => oversight.drift_status.direction = "upward"

\* a call that measured an upward shift of 20%
C22_Witness ==
    /\ Returned
    /\ DriftMeasurable
    /\ MeanDifference * 5 = SumPrice(Prior23) * Cardinality(Recent7)
    /\ oversight.drift_status.drift_detected
    /\ oversight.drift_status.direction = "upward"

\* the four anomaly conditions on the last call's request; the two price
\* conditions are percentages of a positive current price
PeakOver20Above ==
    LET r == call.recommendation_data
    IN  /\ r.current_price_per_quintal > 0
        /\ r.peak_price_per_quintal * 100 > 120 * r.current_price_per_quintal

PeakOver15Below ==
    LET r == call.recommendation_data
    IN  /\ r.current_price_per_quintal > 0
        /\ r.peak_price_per_quintal * 100 < 85 * r.current_price_per_quintal

HoldOver60 == call.recommendation_data.wait_days > 60

\* population standard deviation over mean of the forecast prices > 0.15
VariationOver15 ==
    LET prices == call.recommendation_data.forecast
        n == Len(prices)
        S == SumSeq(prices)
    IN  /\ n > 0 /\ S > 0
        /\ 10000 * (n * SumSquares(prices) - S * S) > 225 * S * S

AnomalyConditions ==
    {<<"UNREALISTIC_SPIKE", PeakOver20Above>>, <<"SHARP_DECLINE_PREDICTED", PeakOver15Below>>,
     <<"EXCESSIVE_HOLD_PERIOD", HoldOver60>>, <<"HIGH_FORECAST_VARIANCE", VariationOver15>>}

\* C23: anomalies_detected is the number of anomaly conditions that hold;
\* the anomaly check appends the warning of exactly the conditions that hold
\* and lowers the score when at least one holds, by a positive amount for
\* each.
C23_AnomaliesCounted ==
    Returned =>
        /\ oversight.anomalies_detected
              = Cardinality({a \in AnomalyConditions : a[2]})
        /\ Len(call.trail[2]) = oversight.anomalies_detected
        /\ \A a \in AnomalyConditions : a[2] <=> HasWarning(call.trail[2], a[1])
        /\ call.scores[1] - call.scores[2]
              = (IF PeakOver20Above THEN 150 ELSE 0) + (IF PeakOver15Below THEN 100 ELSE 0)
                + (IF HoldOver60 THEN 80 ELSE 0) + (IF VariationOver15 THEN 80 ELSE 0)

\* a call with three anomalies: spike, long hold and forecast variance
C23_Witness ==
    /\ Returned
    /\ PeakOver20Above /\ HoldOver60 /\ VariationOver15
    /\ oversight.anomalies_detected = 3
    /\ call.scores[2] = CONFIDENCE_CEILING - 310

\* the warnings a check appended: the entries of `after` behind `before`
Appended(before, after) == SubSeq(after, Len(before) + 1, Len(after))

\* fewer than 7 price points for the cross-validation of the last call
CrossvalHistoryShort ==
    /\ "crossval" \notin call.unavailable
    /\ Cardinality(CrossvalRowsAt(call.recommendation_data.crop, call.date)) < 7

\* no tracked accuracy metric for the crop of the last call
NoTrackedAccuracy ==
    /\ "accuracy" \notin call.unavailable
    /\ AccuracyRowsAt(call.recommendation_data.crop, call.date) = {}

\* features were computed but the momentum feature has fewer than 3 points
MomentumSparse ==
    /\ call.recommendation_data.features.present
    /\ call.recommendation_data.features.data_points < 3

\* the cross-validation check and the accuracy check degrade to one
\* low-severity warning and no penalty
CrossvalDegradesToLow ==
    CrossvalHistoryShort =>
        /\ call.scores[3] = call.scores[2]
        /\ Appended(call.trail[2], call.trail[3])
              = <<Warning("INSUFFICIENT_CROSSVAL_DATA", "low")>>

AccuracyDegradesToLow ==
    NoTrackedAccuracy =>
        /\ call.scores[7] = call.scores[6]
        /\ Appended(call.trail[6], call.trail[7])
              = <<Warning("NO_ACCURACY_HISTORY", "low")>>

\* the data quality check warns about the sparse momentum data with
\* severity low and takes nothing off the score for it (0.03 each is due to
\* default seasonal data and to missing weather history)
QualityDegradesToLow ==
    MomentumSparse =>
        LET features == call.recommendation_data.features
            added == Appended(call.trail[4], call.trail[5])
        IN  /\ \E i \in 1..Len(added) : added[i] = Warning("SPARSE_PRICE_DATA", "low")
            /\ call.scores[4] - call.scores[5]
                  = (IF features.seasonal = "default_pattern" THEN 30 ELSE 0)
                    + (IF features.rainfall = "no_data" THEN 30 ELSE 0)

\* C24: in the cross-validation, historical accuracy and data quality
\* checks insufficient history (fewer than 7 price points, no tracked
\* accuracy metric, too few points for the momentum feature) produces only
\* a warning of severity low and no penalty.
C24_InsufficientHistoryOnlyWarns ==
    Returned =>
        /\ CrossvalDegradesToLow
        /\ AccuracyDegradesToLow
        /\ QualityDegradesToLow

\* C25: whenever evaluate detects drift (DRIFT_DETECTED warning and 0.1
\* penalty applied) the warnings also contain DRIFT_CONSERVATIVE_MODE.
C25_DriftMeansConservativeMode ==
    (Returned /\ oversight.drift_status.drift_detected) =>
        /\ HasWarning(oversight.warnings, "DRIFT_DETECTED")
        /\ call.scores[5] - call.scores[6] = 100
        /\ HasWarning(oversight.warnings, "DRIFT_CONSERVATIVE_MODE")

\* C27: every audit entry written with verdict OVERRIDDEN carries an override
\* reason, and for every evaluate call with a non-empty overrides list the
\* reason handed to _log_to_db is not null and is the reason of one of those
\* overrides.
C27_OverriddenHasReason ==
    /\ \A i \in 1..Len(overseer_log) :
          overseer_log[i].verdict = "OVERRIDDEN" =>
              /\ overseer_log[i].reason # None
              /\ overseer_log[i].reason # ""
    /\ (call.made /\ call.overrides # <<>>) =>
          /\ log_args.reason # None
          /\ \E i \in 1..Len(call.overrides) : call.overrides[i].reason = log_args.reason

\* the number of overrides of one field in a list of overrides
OverridesOf(overrides, field) ==
    Cardinality({i \in 1..Len(overrides) : overrides[i].field = field})

\* C28: the overrides list of every Oversight Result holds at most one
\* override of the recommendation and at most one of wait_days.
C28_OneOverridePerField ==
    Returned =>
        /\ OverridesOf(oversight.overrides, "recommendation") <= 1
        /\ OverridesOf(oversight.overrides, "wait_days") <= 1

\* C29: an evaluate call whose recommendation is not HOLD receives neither
\* the PERISHABLE_HOLD_RISK warning nor its 0.10 penalty: the perishable
\* check takes off at most the high-volatility penalty.
C29_HoldRiskOnlyForHold ==
    (call.made /\ call.recommendation_data.recommendation # "HOLD") =>
        LET r == call.recommendation_data
            volatility ==
                IF r.crop \in DOMAIN PERISHABLE_CROPS /\ r.risk_level = "HIGH"
                THEN PERISHABLE_CROPS[r.crop].high_risk_penalty ELSE 0
        IN  /\ ~HasWarning(call.trail[7], "PERISHABLE_HOLD_RISK")
            /\ call.scores[3] - call.scores[4] = volatility

\* a returned advice whose decision logic chose HOLD for a perishable crop of
\* the Overseer table beyond the crop's max safe days
PerishableHoldDecided ==
    /\ data.made
    /\ data.returned
    /\ data.decided = "HOLD"
    /\ data.crop \in DOMAIN PERISHABLE_CROPS
    /\ data.price_result.wait_days > PERISHABLE_CROPS[data.crop].max_safe_days

\* C26: whenever the decision logic of get_recommendation selects HOLD for a
\* perishable crop with wait_days above the crop's max safe days, the
\* recommendation returned is SELL NOW with overseer verdict OVERRIDDEN,
\* whatever the weather risk of the district.
C26_PerishableHoldBecomesSell ==
    PerishableHoldDecided =>
        /\ result.recommendation = "SELL NOW"
        /\ result.overseer.verdict = "OVERRIDDEN"

\* C30: every result get_recommendation returns carries in its 'overseer'
\* field one of the four verdicts of a completed Overseer evaluation.
C30_AdviceAlwaysEvaluated ==
    (data.made /\ data.returned) =>
        result.overseer.verdict
            \in {"APPROVED", "APPROVED_WITH_WARNINGS", "OVERRIDDEN", "FLAGGED"}

====
